---- MODULE Spec2Model ----
(* xtended402: settlement-ordering middleware for Gin (http/gin/middleware.go) *)
(* and the PaymentData accessor (server/go/types.go).                          *)
(* One request travels through the chain  payment middleware -> handler.       *)
EXTENDS Integers, Sequences, FiniteSets, TLC

(* ------------------------------------------------------------------------- *)
(* Bounds                                                                     *)
(* ------------------------------------------------------------------------- *)

\* number of status-set / write calls the business handler may make
MaxHandlerOps == 2

(* ------------------------------------------------------------------------- *)
(* Values                                                                     *)
(* ------------------------------------------------------------------------- *)

Nil == "nil"

PaymentDataKey == "xtended402PaymentData"

StatusOK == 200

StatusPaymentRequired == 402

\* values WithSettlementTiming may be given
Timings == {"after", "before", "Before", ""}

\* no WithSettlementTiming option among opts
NoTimingOption == "(none)"

\* request bodies (the absent body is captured as the empty sequence)
Bodies == {<<>>, <<"o1", "o2">>}

\* status codes the business handler may set
HandlerCodes == {201, 400}

\* body chunks the business handler may write
HandlerBytes == {[kind |-> "raw", obj |-> <<b>>] : b \in {"h1", "h2"}}

\* errors the before-settle hook may return (Nil: no error)
\* a response header the handler sets
HandlerHeader == <<"X-Order-Id", "o-17">>

HookResults == {Nil, "out of stock", "price changed"}

\* the hook has not been called
NotCalled == "not called"

\* what a user-supplied ErrorHandler may write: nothing (0) or a status
ErrorHandlerStatuses == {0, 402, 500}

\* x402http result kinds; "other" stands for any kind outside the three named
ResultNoPaymentRequired == "no-payment-required"

ResultPaymentError == "payment-error"

ResultPaymentVerified == "payment-verified"

PaymentHeaders == {<<"PAYMENT-REQUIRED", "reqs">>}

SettleHeaders == {<<"PAYMENT-RESPONSE", "receipt">>}

\* before ProcessHTTPRequest / ProcessSettlement returned
NoResult == [Type |-> "none"]

NoSettle == [Success |-> FALSE, ErrorReason |-> "none", Transaction |-> "",
             Network |-> "", Payer |-> "", Headers |-> {}]

\* the nil *PaymentData
NilPaymentData == [isNil |-> TRUE]

\* results of server.ProcessHTTPRequest
ProcessResults ==
  {[Type |-> ResultNoPaymentRequired], [Type |-> "other"]}
  \cup {[Type |-> ResultPaymentVerified, PaymentPayload |-> "payload",
         PaymentRequirements |-> "reqs"]}
  \cup {[Type |-> ResultPaymentError,
         Response |-> [Status |-> s, Headers |-> PaymentHeaders,
                       Body |-> <<"paywall">>, IsHTML |-> h]] :
          s \in {402, 412}, h \in BOOLEAN}

\* results of server.ProcessSettlement
SettleResults ==
  {[Success |-> TRUE, ErrorReason |-> "", Transaction |-> tx,
    Network |-> "base", Payer |-> "0xpayer", Headers |-> SettleHeaders] :
     tx \in {"0xabc", "0xdef"}}
  \cup {[Success |-> FALSE, ErrorReason |-> r, Transaction |-> "",
         Network |-> "", Payer |-> "", Headers |-> SettleHeaders] :
          r \in {"", "insufficient funds", "context deadline exceeded"}}

VARIABLES
  config,       \* MiddlewareConfig
  pc,           \* position of the request in the chain
  ret,          \* where control goes when the business handler returns
  c,            \* gin.Context: aborted, Keys, Writer, the real connection
  writer,       \* the responseCapture installed by after-timing
  requestBody,  \* bytes captured by createMiddlewareHandler
  result,       \* result of ProcessHTTPRequest
  hookErr,      \* what the before-settle hook returned
  settleResult, \* result of ProcessSettlement
  events,       \* calls made for this request, in order
  handlerOps,   \* status-set / write calls made by the handler so far
  handlerSaw,   \* what GetPaymentData returned to the handler
  callbackSaw,  \* what the settlement callback found when it was called
  httpRequest,  \* c.Request: the body stream, and what the client sent
  timeoutCtx,   \* ctx of context.WithTimeout(c.Request.Context(), Timeout)
  handlerLog,   \* the status-set / write calls of the handler, in order
  handlerRead,  \* what the handler read from c.Request.Body
  timingOption  \* argument of the last WithSettlementTiming option applied

envVars == <<httpRequest, timeoutCtx, handlerLog, handlerRead>>

reqVars ==
  <<ret, c, writer, requestBody, result, hookErr, settleResult, events,
    handlerOps, handlerSaw, callbackSaw, envVars>>

mainVars == <<config, timingOption, pc, reqVars>>

\* context-based pricing (specification SpecPrice)
VARIABLES
  requestCtx,   \* c.Request.Context(): the chain of WithValue entries
  priceCtx,     \* the context the middleware derived and gave to the engine
  priceResult   \* what the price function returned, and for which key

priceVars == <<requestCtx, priceCtx, priceResult>>

\* several requests served by the same middleware (specification SpecMulti)
VARIABLES
  served,       \* per request: where its handler function stands, its payload
  settled,      \* the payloads the engine has settled
  settleCalls,  \* the payloads of the ProcessSettlement calls, in order
  contexts      \* per gin.Context: the price and the PaymentData stored in it

multiVars == <<served, settled, settleCalls, contexts>>

\* one responseCapture used by concurrent callers (specification SpecCapture)
VARIABLES
  shared,       \* the responseCapture: statusCode, written, body
  mu,           \* w.mu: the caller holding it, 0 when free
  callers,      \* per goroutine: its call and where it stands in it
  fixes         \* how many times the status was fixed

captureVars == <<shared, mu, callers, fixes>>

\* the middleware constructor (specification SpecInit)
VARIABLES
  ctor,         \* PaymentMiddleware: its position, config, Initialize's result
  warnings,     \* the warnings printed
  handlerFunc,  \* the gin.HandlerFunc returned, with the config it captured
  dispatched    \* the last request the returned handler dispatched

initVars == <<ctor, warnings, handlerFunc, dispatched>>

\* the server-level hook of CreateBeforeSettleHook (specification SpecHook)
VARIABLES
  validateLog,  \* what validateFn returned, one entry per call of it
  hookReturns   \* what the hook returned, one entry per settle attempt

hookVars == <<validateLog, hookReturns>>

\* the example's route: validation, payment middleware, order handler
\* (specification SpecChain)
VARIABLES
  chain,        \* the gin context of one POST /api/purchase and its position
  engineCalls,  \* how often the engine verified and settled for it
  orders        \* the orders map of the example, as the list of its entries

chainVars == <<chain, engineCalls, orders>>

\* the React component ConnectAndPay (specification SpecClient)
VARIABLES
  component,    \* its props and state: orderData, the discovered terms, flags
  discoveries   \* the discovery requests issued, oldest first, and their fate

clientVars == <<component, discoveries>>

\* variables of the other specifications of this module
otherVars == <<priceVars, multiVars, captureVars, initVars, hookVars, chainVars, clientVars>>

vars == <<mainVars, otherVars>>

(* ------------------------------------------------------------------------- *)
(* The request body stream                                                    *)
(* ------------------------------------------------------------------------- *)

\* c.Request.Body == nil
NilBody == [nil |-> TRUE, data |-> <<>>, pos |-> 0, fails |-> FALSE]

\* a body stream holding data, unread; fails: a read of it ends in an error
Stream(data, fails) ==
  [nil |-> FALSE, data |-> data, pos |-> 0, fails |-> fails]

\* io.ReadAll(body): the bytes from the read position on; a failing stream
\* gives up after one chunk
ReadAll(body) ==
  LET last == IF body.fails /\ body.pos < Len(body.data)
              THEN body.pos + 1 ELSE Len(body.data)
  IN [bytes |-> SubSeq(body.data, body.pos + 1, last),
      err |-> body.fails,
      rest |-> [body EXCEPT !.pos = last]]

\* io.NopCloser(bytes.NewBuffer(bodyBytes))
NewBuffer(bytes) == Stream(bytes, FALSE)

\* a failed read that keeps the bytes read before the error
readFailedKeepsBytes(body) ==
  [requestBody |-> ReadAll(body).bytes, Body |-> ReadAll(body).rest]

\* err != nil: requestBody stays nil and c.Request.Body stays the stream that
\* was read from
readFailed(body) ==
  [requestBody |-> <<>>, Body |-> ReadAll(body).rest]

captureBodyNoRestore(body) ==
  IF body.nil THEN [requestBody |-> <<>>, Body |-> body]
  ELSE [requestBody |-> IF ReadAll(body).err THEN <<>> ELSE ReadAll(body).bytes,
        Body |-> ReadAll(body).rest]

\* var requestBody []byte; if c.Request.Body != nil { ReadAll; restore }
captureBody(body) ==
  IF body.nil THEN [requestBody |-> <<>>, Body |-> body]
  ELSE IF ~ReadAll(body).err
       THEN [requestBody |-> ReadAll(body).bytes,
             Body |-> NewBuffer(ReadAll(body).bytes)]
       ELSE readFailed(body)

\* the request bodies a client may send: none, or a stream over some bytes
IncomingBodies ==
  {NilBody} \cup {Stream(b, f) : b \in Bodies, f \in BOOLEAN}

(* ------------------------------------------------------------------------- *)
(* The protocol engine under the operation deadline                           *)
(* ------------------------------------------------------------------------- *)

NoCtx == [active |-> FALSE, done |-> FALSE, at |-> "none"]

\* what ProcessHTTPRequest may return: a payment error once ctx is done
\* the context handed to the engine calls: the one derived with WithTimeout
\* from the request's context, so the deadline and the host's cancellation
\* both reach the engine
engineCtxBackground(t) == NoCtx

engineCtx(t) == t

\* a settlement call that gets a context with a deadline of its own
settleCtxFresh(t) == [engineCtx(t) EXCEPT !.done = FALSE]

\* the context handed to ProcessSettlement: the ctx made before verification
settleCtx(t) == engineCtx(t)

ProcessOutcomes(t) ==
  IF t.done THEN {r \in ProcessResults : r.Type = ResultPaymentError}
  ELSE ProcessResults

\* what ProcessSettlement may return: a failure once ctx is done
SettleOutcomes(t) ==
  IF t.done THEN {sr \in SettleResults : ~sr.Success} ELSE SettleResults

(* ------------------------------------------------------------------------- *)
(* gin primitives used by the middleware                                      *)
(* ------------------------------------------------------------------------- *)

EmptyKeys == [k \in {} |-> Nil]

\* the connection's writer: status 200 until set, nothing written
NewConn ==
  [status |-> StatusOK, written |-> FALSE, body |-> <<>>,
   headers |-> {}, sentHeaders |-> {}]

NewContext ==
  [aborted |-> FALSE, Keys |-> EmptyKeys, Writer |-> "real", conn |-> NewConn]

\* the real writer's WriteHeader: ignored once the header went out
connWriteHeader(cn, code) ==
  IF code > 0 /\ cn.status # code /\ ~cn.written
  THEN [cn EXCEPT !.status = code]
  ELSE cn

\* the real writer's WriteHeaderNow: status and headers go out
connWriteHeaderNow(cn) ==
  IF cn.written THEN cn
  ELSE [cn EXCEPT !.written = TRUE, !.sentHeaders = cn.headers]

\* the real writer's Write
connWrite(cn, data) ==
  [connWriteHeaderNow(cn) EXCEPT !.body = @ \o data]

\* c.Header(key, value)
Header(ctx, key, value) ==
  [ctx EXCEPT !.conn.headers =
     {h \in @ : h[1] # key} \cup {<<key, value>>}]

RECURSIVE Headers(_, _)
\* for key, value := range hs { c.Header(key, value) }
Headers(ctx, hs) ==
  IF hs = {} THEN ctx
  ELSE LET h == CHOOSE x \in hs : TRUE
       IN Headers(Header(ctx, h[1], h[2]), hs \ {h})

\* c.Abort()
Abort(ctx) == [ctx EXCEPT !.aborted = TRUE]

\* c.Set(key, value)
Set(ctx, key, value) ==
  [ctx EXCEPT !.Keys =
     [k \in DOMAIN @ \cup {key} |-> IF k = key THEN value ELSE @[k]]]

\* c.JSON(code, obj) / c.Data(code, contentType, data) on the real writer
Render(ctx, code, kind, obj) ==
  [ctx EXCEPT !.conn =
     connWrite(connWriteHeader(@, code), <<[kind |-> kind, obj |-> obj]>>)]

JSON(ctx, code, obj) == Render(ctx, code, "json", obj)

\* GetPaymentData(c)
GetPaymentDataNil(ctx) == NilPaymentData

GetPaymentData(ctx) ==
  IF PaymentDataKey \in DOMAIN ctx.Keys THEN ctx.Keys[PaymentDataKey]
  ELSE NilPaymentData

(* ------------------------------------------------------------------------- *)
(* responseCapture                                                            *)
(* ------------------------------------------------------------------------- *)

NoCapture == [statusCode |-> StatusOK, written |-> FALSE, body |-> <<>>]

writeHeaderLockedLastWins(w, code) ==
  [w EXCEPT !.statusCode = code, !.written = TRUE]

writeHeaderLocked(w, code) ==
  IF ~w.written THEN [w EXCEPT !.statusCode = code, !.written = TRUE] ELSE w

WriteHeader(w, code) == writeHeaderLocked(w, code)

Write(w, data) ==
  LET w1 == IF ~w.written THEN writeHeaderLocked(w, StatusOK) ELSE w
  IN [w1 EXCEPT !.body = @ \o data]

(* ------------------------------------------------------------------------- *)
(* Response paths of the middleware                                           *)
(* ------------------------------------------------------------------------- *)

\* config.ErrorHandler(c, err): user code; eh is the status it writes, 0 if none
ErrorHandlerCall(ctx, eh, err) ==
  IF eh = 0 THEN ctx ELSE Render(ctx, eh, "custom", err)

hookVetoResponseDefault(ctx, cfg, err, eh) ==
  JSON(ctx, StatusPaymentRequired, <<"Pre-settlement validation failed", err>>)

\* the veto response shared by both timings
hookVetoResponse(ctx, cfg, err, eh) ==
  IF cfg.ErrorHandler
  THEN ErrorHandlerCall(ctx, eh, <<"before-settle hook failed: ", err>>)
  ELSE JSON(ctx, StatusPaymentRequired,
            <<"Pre-settlement validation failed", err>>)

hookVetoAfter(ctx, cfg, err, eh) == hookVetoResponse(ctx, cfg, err, eh)

hookVetoBeforeNoAbort(ctx, cfg, err, eh) == hookVetoResponse(ctx, cfg, err, eh)

hookVetoBefore(ctx, cfg, err, eh) == Abort(hookVetoResponse(ctx, cfg, err, eh))

errorReasonRaw(sr) == sr.ErrorReason

\* errorReason := settleResult.ErrorReason; if errorReason == "" { ... }
errorReason(sr) ==
  IF sr.ErrorReason = "" THEN "Settlement failed" ELSE sr.ErrorReason

settleFailedResponseWithHeaders(ctx, cfg, sr, eh) ==
  IF cfg.ErrorHandler
  THEN ErrorHandlerCall(Headers(ctx, sr.Headers), eh,
                        <<"settlement failed: ", errorReason(sr)>>)
  ELSE JSON(Headers(ctx, sr.Headers), StatusPaymentRequired,
            <<"Settlement failed", errorReason(sr)>>)

settleFailedResponse(ctx, cfg, sr, eh) ==
  IF cfg.ErrorHandler
  THEN ErrorHandlerCall(ctx, eh, <<"settlement failed: ", errorReason(sr)>>)
  ELSE JSON(ctx, StatusPaymentRequired,
            <<"Settlement failed", errorReason(sr)>>)

\* c.Writer.WriteHeader(writer.statusCode); c.Writer.Write(writer.body.Bytes())
flushCapturedBodyOnly(ctx, w) ==
  [ctx EXCEPT !.conn = connWrite(@, w.body)]

flushCaptured(ctx, w) ==
  [ctx EXCEPT !.conn = connWrite(connWriteHeader(@, w.statusCode), w.body)]

settleFailedAfterFallThrough(ctx, cfg, sr, eh) ==
  flushCaptured(settleFailedResponse(ctx, cfg, sr, eh), writer)

settleFailedAfter(ctx, cfg, sr, eh) == settleFailedResponse(ctx, cfg, sr, eh)

settleFailedBeforeNoAbort(ctx, cfg, sr, eh) ==
  settleFailedResponse(ctx, cfg, sr, eh)

settleFailedBefore(ctx, cfg, sr, eh) ==
  Abort(settleFailedResponse(ctx, cfg, sr, eh))

\* &xtended402.PaymentData{...}
NewPaymentDataNoBody(res, sr, body) ==
  [PaymentPayload |-> res.PaymentPayload,
   SettleResponse |-> [Success |-> TRUE, Transaction |-> sr.Transaction,
                       Network |-> sr.Network, Payer |-> sr.Payer],
   PaymentRequirements |-> res.PaymentRequirements,
   VerifyResponse |-> [IsValid |-> TRUE],
   RequestBody |-> <<>>]

NewPaymentData(res, sr, body) ==
  [PaymentPayload |-> res.PaymentPayload,
   SettleResponse |-> [Success |-> TRUE, Transaction |-> sr.Transaction,
                       Network |-> sr.Network, Payer |-> sr.Payer],
   PaymentRequirements |-> res.PaymentRequirements,
   VerifyResponse |-> [IsValid |-> TRUE],
   RequestBody |-> body]

settleSucceededBeforeNoStore(ctx, res, sr, body) == Headers(ctx, sr.Headers)

\* before-timing success: settlement headers, then c.Set(PaymentDataKey, ...)
settleSucceededBefore(ctx, res, sr, body) ==
  Set(Headers(ctx, sr.Headers), PaymentDataKey, NewPaymentData(res, sr, body))

\* after-timing success: settlement headers
settleSucceededAfterStores(ctx, sr) ==
  Set(Headers(ctx, sr.Headers), PaymentDataKey,
      NewPaymentData(result, sr, requestBody))

settleSucceededAfter(ctx, sr) == Headers(ctx, sr.Headers)

\* if writer.statusCode >= 400
responseFailed(w) == w.statusCode >= 400

handlePaymentErrorNoAbort(ctx, response) ==
  Render(Headers([ctx EXCEPT !.conn = connWriteHeader(@, response.Status)],
                 response.Headers),
         response.Status, IF response.IsHTML THEN "html" ELSE "json",
         response.Body)

\* handlePaymentError(c, response, config)
handlePaymentErrorResponse(ctx, response) ==
  LET c1 == [ctx EXCEPT !.conn = connWriteHeader(@, response.Status)]
      c2 == Headers(c1, response.Headers)
      c3 == Render(c2, response.Status,
                   IF response.IsHTML THEN "html" ELSE "json", response.Body)
  IN Abort(c3)

hookOrSettleSkipsHook(cfg) == "settle"

\* if config.BeforeSettleHook != nil { ... } else straight to settlement
hookOrSettle(cfg) == IF cfg.BeforeSettleHook THEN "hook" ELSE "settle"

afterHookFallThrough(err) == "settle"

\* if err := config.BeforeSettleHook(c, verifyResp); err != nil { ...; return }
afterHook(err) == IF err # Nil THEN "return" ELSE "settle"

afterSettleFailedRetry == "settle"

\* if !settleResult.Success { ...; return }: no second attempt
afterSettleFailed == "return"

\* the settlement callback has not been called
NoCallback ==
  [called |-> FALSE, paymentData |-> NilPaymentData, written |-> FALSE,
   headers |-> {}, transaction |-> ""]

\* config.SettlementHandler(c, settleResponse): what the callback is given
\* and finds on the context at the moment of the call
SettlementHandlerCall(ctx, cfg, sr) ==
  IF cfg.SettlementHandler
  THEN [called |-> TRUE, paymentData |-> GetPaymentData(ctx),
        written |-> ctx.conn.written, headers |-> ctx.conn.headers,
        transaction |-> sr.Transaction]
  ELSE NoCallback

\* calls made on a failure path: the custom error handler, when configured
errorCalls(cfg) == IF cfg.ErrorHandler THEN <<"errorHandler">> ELSE <<>>

settlementCallsTwice(cfg) ==
  IF cfg.SettlementHandler
  THEN <<"settlementHandler", "settlementHandler">> ELSE <<>>

\* if config.SettlementHandler != nil { config.SettlementHandler(...) }
settlementCalls(cfg) ==
  IF cfg.SettlementHandler THEN <<"settlementHandler">> ELSE <<>>

settleBeforeHandlerUnlessAfter(cfg) == cfg.SettlementTiming # "after"

\* if config.SettlementTiming == "before"
settleBeforeHandler(cfg) == cfg.SettlementTiming = "before"

(* ------------------------------------------------------------------------- *)
(* State machine                                                              *)
(* ------------------------------------------------------------------------- *)

\* config := &MiddlewareConfig{..., SettlementTiming: "after"}
MainInit ==
  /\ config = [SettlementTiming |-> "after", BeforeSettleHook |-> FALSE,
               ErrorHandler |-> FALSE, SettlementHandler |-> FALSE]
  /\ pc = "config"
  /\ ret = "none"
  /\ c = NewContext
  /\ writer = NoCapture
  /\ requestBody = <<>>
  /\ result = NoResult
  /\ hookErr = NotCalled
  /\ settleResult = NoSettle
  /\ events = <<>>
  /\ handlerOps = 0
  /\ handlerSaw = NilPaymentData
  /\ callbackSaw = NoCallback
  /\ httpRequest = [Body |-> NilBody, sent |-> NilBody,
                    requiresPayment |-> FALSE]
  /\ timeoutCtx = NoCtx
  /\ handlerLog = <<>>
  /\ handlerRead = [done |-> FALSE, bytes |-> <<>>]
  /\ timingOption = NoTimingOption

WithSettlementTimingFirstWins ==
  /\ pc = "config"
  /\ \E t \in Timings :
       /\ config' = IF timingOption = NoTimingOption
                    THEN [config EXCEPT !.SettlementTiming = t]
                    ELSE config
       /\ timingOption' = t
  /\ UNCHANGED <<pc, reqVars>>
  /\ UNCHANGED otherVars

\* opt(config) for opt = WithSettlementTiming(t)
WithSettlementTiming ==
  /\ pc = "config"
  /\ \E t \in Timings :
       /\ config' = [config EXCEPT !.SettlementTiming = t]
       /\ timingOption' = t
  /\ UNCHANGED <<pc, reqVars>>
  /\ UNCHANGED otherVars

WithBeforeSettleHook ==
  /\ pc = "config"
  /\ config' = [config EXCEPT !.BeforeSettleHook = TRUE]
  /\ UNCHANGED <<timingOption, pc, reqVars>>
  /\ UNCHANGED otherVars

WithErrorHandler ==
  /\ pc = "config"
  /\ config' = [config EXCEPT !.ErrorHandler = TRUE]
  /\ UNCHANGED <<timingOption, pc, reqVars>>
  /\ UNCHANGED otherVars

WithSettlementHandler ==
  /\ pc = "config"
  /\ config' = [config EXCEPT !.SettlementHandler = TRUE]
  /\ UNCHANGED <<timingOption, pc, reqVars>>
  /\ UNCHANGED otherVars

\* c.Next(): the business handler starts and reads GetPaymentData
StartHandler(ctx, back) ==
  /\ pc' = "handler"
  /\ ret' = back
  /\ handlerSaw' = GetPaymentData(ctx)

\* a request enters the middleware: body capture, then RequiresPayment
Request ==
  /\ pc = "config"
  /\ \E body \in IncomingBodies, required \in BOOLEAN :
       /\ requestBody' = captureBody(body).requestBody
       /\ httpRequest' = [Body |-> captureBody(body).Body, sent |-> body,
                          requiresPayment |-> required]
       /\ IF required
          THEN /\ pc' = "process"
               /\ timeoutCtx' = [timeoutCtx EXCEPT !.active = TRUE]
               /\ events' = events \o <<"requiresPayment">>
               /\ UNCHANGED <<ret, handlerSaw>>
          ELSE /\ StartHandler(c, "return")
               /\ timeoutCtx' = timeoutCtx
               /\ events' = events \o <<"requiresPayment", "handler">>
  /\ UNCHANGED <<config, timingOption, c, writer, result, hookErr, settleResult, handlerOps>>
  /\ UNCHANGED <<handlerLog, handlerRead>>
  /\ UNCHANGED callbackSaw
  /\ UNCHANGED otherVars

ProcessHTTPRequestTwice ==
  /\ pc = "process"
  /\ \E r \in ProcessOutcomes(engineCtx(timeoutCtx)) : result' = r
  /\ pc' = IF \E i \in DOMAIN events : events[i] = "verify"
           THEN "switch" ELSE "process"
  /\ events' = events \o <<"verify">>
  /\ UNCHANGED <<config, timingOption, ret, c, writer, requestBody, hookErr, settleResult,
                 handlerOps, handlerSaw, callbackSaw>>
  /\ UNCHANGED envVars
  /\ UNCHANGED otherVars

\* result := server.ProcessHTTPRequest(ctx, reqCtx, config.PaywallConfig)
ProcessHTTPRequest ==
  /\ pc = "process"
  /\ \E r \in ProcessOutcomes(engineCtx(timeoutCtx)) : result' = r
  /\ pc' = "switch"
  /\ events' = events \o <<"verify">>
  /\ UNCHANGED <<config, timingOption, ret, c, writer, requestBody, hookErr, settleResult,
                 handlerOps, handlerSaw, callbackSaw>>
  /\ UNCHANGED envVars
  /\ UNCHANGED otherVars

NoPaymentRequiredCaptured ==
  /\ pc = "switch"
  /\ result.Type = ResultNoPaymentRequired
  /\ c' = [c EXCEPT !.Writer = "capture"]
  /\ StartHandler(c', "return")
  /\ events' = events \o <<"handler">>
  /\ UNCHANGED <<config, timingOption, writer, requestBody, result, hookErr,
                 settleResult, handlerOps>>
  /\ UNCHANGED envVars
  /\ UNCHANGED callbackSaw
  /\ UNCHANGED otherVars

\* case x402http.ResultNoPaymentRequired: c.Next()
NoPaymentRequired ==
  /\ pc = "switch"
  /\ result.Type = ResultNoPaymentRequired
  /\ StartHandler(c, "return")
  /\ events' = events \o <<"handler">>
  /\ UNCHANGED <<config, timingOption, c, writer, requestBody, result, hookErr,
                 settleResult, handlerOps>>
  /\ UNCHANGED envVars
  /\ UNCHANGED callbackSaw
  /\ UNCHANGED otherVars

\* case x402http.ResultPaymentError: handlePaymentError(...)
handlePaymentError ==
  /\ pc = "switch"
  /\ result.Type = ResultPaymentError
  /\ c' = handlePaymentErrorResponse(c, result.Response)
  /\ pc' = "return"
  /\ UNCHANGED <<config, timingOption, ret, writer, requestBody, result, hookErr,
                 settleResult, events, handlerOps, handlerSaw, callbackSaw>>
  /\ UNCHANGED envVars
  /\ UNCHANGED otherVars

\* a result kind without a case: the switch falls through
UnknownResult ==
  /\ pc = "switch"
  /\ result.Type \notin
       {ResultNoPaymentRequired, ResultPaymentError, ResultPaymentVerified}
  /\ pc' = "return"
  /\ UNCHANGED <<config, timingOption, reqVars>>
  /\ UNCHANGED otherVars

\* case x402http.ResultPaymentVerified, timing "before"
PaymentVerifiedBefore ==
  /\ pc = "switch"
  /\ result.Type = ResultPaymentVerified
  /\ settleBeforeHandler(config)
  /\ pc' = hookOrSettle(config)
  /\ UNCHANGED <<config, timingOption, reqVars>>
  /\ UNCHANGED otherVars

\* handlePaymentVerifiedSettleBefore: the before-settle hook
SettleBefore_Hook ==
  /\ pc = "hook"
  /\ settleBeforeHandler(config)
  /\ \E err \in HookResults, eh \in ErrorHandlerStatuses :
       /\ hookErr' = err
       /\ pc' = afterHook(err)
       /\ IF err # Nil
          THEN /\ c' = hookVetoBefore(c, config, err, eh)
               /\ events' = events \o <<"hook">> \o errorCalls(config)
          ELSE /\ c' = c
               /\ events' = events \o <<"hook">>
  /\ UNCHANGED <<config, timingOption, ret, writer, requestBody, result, settleResult,
                 handlerOps, handlerSaw, callbackSaw>>
  /\ UNCHANGED envVars
  /\ UNCHANGED otherVars

\* handlePaymentVerifiedSettleBefore: ProcessSettlement and what follows
SettleBefore_Settle ==
  /\ pc = "settle"
  /\ settleBeforeHandler(config)
  /\ \E sr \in SettleOutcomes(settleCtx(timeoutCtx)), eh \in ErrorHandlerStatuses :
       /\ settleResult' = sr
       /\ IF ~sr.Success
          THEN /\ c' = settleFailedBefore(c, config, sr, eh)
               /\ events' = events \o <<"settle">> \o errorCalls(config)
               /\ pc' = afterSettleFailed
               /\ UNCHANGED <<ret, handlerSaw, callbackSaw>>
          ELSE /\ c' = settleSucceededBefore(c, result, sr, requestBody)
               /\ callbackSaw' = SettlementHandlerCall(c', config, sr)
               /\ events' = events \o <<"settle">> \o settlementCalls(config)
                                   \o <<"handler">>
               /\ StartHandler(c', "return")
  /\ UNCHANGED <<config, timingOption, writer, requestBody, result, hookErr, handlerOps>>
  /\ UNCHANGED envVars
  /\ UNCHANGED otherVars

\* case x402http.ResultPaymentVerified, any other timing:
\* handlePaymentVerifiedSettleAfter installs the capture and calls c.Next()
PaymentVerifiedAfter ==
  /\ pc = "switch"
  /\ result.Type = ResultPaymentVerified
  /\ ~settleBeforeHandler(config)
  /\ writer' = NoCapture
  /\ c' = [c EXCEPT !.Writer = "capture"]
  /\ StartHandler(c', "afterNext")
  /\ events' = events \o <<"handler">>
  /\ UNCHANGED <<config, timingOption, requestBody, result, hookErr, settleResult,
                 handlerOps>>
  /\ UNCHANGED envVars
  /\ UNCHANGED callbackSaw
  /\ UNCHANGED otherVars

\* an abort check that puts the real writer back and flushes the capture
SettleAfter_AbortedFlushes ==
  /\ pc = "afterNext"
  /\ c.aborted
  /\ c' = flushCaptured([c EXCEPT !.Writer = "real"], writer)
  /\ pc' = "return"
  /\ UNCHANGED <<config, timingOption, ret, writer, requestBody, result, hookErr,
                 settleResult, events, handlerOps, handlerSaw, callbackSaw>>
  /\ UNCHANGED envVars
  /\ UNCHANGED otherVars

\* if c.IsAborted() { return }
SettleAfter_Aborted ==
  /\ pc = "afterNext"
  /\ c.aborted
  /\ pc' = "return"
  /\ UNCHANGED <<config, timingOption, reqVars>>
  /\ UNCHANGED otherVars

SettleAfter_RestoreIgnoresAbort ==
  /\ pc = "afterNext"
  /\ LET c1 == [c EXCEPT !.Writer = "real"]
     IN IF responseFailed(writer)
        THEN /\ c' = flushCaptured(c1, writer)
             /\ pc' = "return"
        ELSE /\ c' = c1
             /\ pc' = hookOrSettle(config)
  /\ UNCHANGED <<config, timingOption, ret, writer, requestBody, result, hookErr,
                 settleResult, events, handlerOps, handlerSaw, callbackSaw>>
  /\ UNCHANGED envVars
  /\ UNCHANGED otherVars

\* c.Writer = writer.ResponseWriter; if writer.statusCode >= 400 { flush }
SettleAfter_Restore ==
  /\ pc = "afterNext"
  /\ ~c.aborted
  /\ LET c1 == [c EXCEPT !.Writer = "real"]
     IN IF responseFailed(writer)
        THEN /\ c' = flushCaptured(c1, writer)
             /\ pc' = "return"
        ELSE /\ c' = c1
             /\ pc' = hookOrSettle(config)
  /\ UNCHANGED <<config, timingOption, ret, writer, requestBody, result, hookErr,
                 settleResult, events, handlerOps, handlerSaw, callbackSaw>>
  /\ UNCHANGED envVars
  /\ UNCHANGED otherVars

\* handlePaymentVerifiedSettleAfter: the before-settle hook
SettleAfter_Hook ==
  /\ pc = "hook"
  /\ ~settleBeforeHandler(config)
  /\ \E err \in HookResults, eh \in ErrorHandlerStatuses :
       /\ hookErr' = err
       /\ pc' = afterHook(err)
       /\ IF err # Nil
          THEN /\ c' = hookVetoAfter(c, config, err, eh)
               /\ events' = events \o <<"hook">> \o errorCalls(config)
          ELSE /\ c' = c
               /\ events' = events \o <<"hook">>
  /\ UNCHANGED <<config, timingOption, ret, writer, requestBody, result, settleResult,
                 handlerOps, handlerSaw, callbackSaw>>
  /\ UNCHANGED envVars
  /\ UNCHANGED otherVars

\* handlePaymentVerifiedSettleAfter: ProcessSettlement and what follows
SettleAfter_Settle ==
  /\ pc = "settle"
  /\ ~settleBeforeHandler(config)
  /\ \E sr \in SettleOutcomes(settleCtx(timeoutCtx)), eh \in ErrorHandlerStatuses :
       /\ settleResult' = sr
       /\ IF ~sr.Success
          THEN /\ c' = settleFailedAfter(c, config, sr, eh)
               /\ events' = events \o <<"settle">> \o errorCalls(config)
               /\ pc' = afterSettleFailed
               /\ UNCHANGED callbackSaw
          ELSE /\ c' = flushCaptured(settleSucceededAfter(c, sr), writer)
               /\ callbackSaw' =
                    SettlementHandlerCall(settleSucceededAfter(c, sr), config, sr)
               /\ events' = events \o <<"settle">> \o settlementCalls(config)
               /\ pc' = "return"
  /\ UNCHANGED <<config, timingOption, ret, writer, requestBody, result, hookErr,
                 handlerOps, handlerSaw>>
  /\ UNCHANGED envVars
  /\ UNCHANGED otherVars

\* the business handler calls c.Status(code)
Handler_Status ==
  /\ pc = "handler"
  /\ handlerOps < MaxHandlerOps
  /\ \E code \in HandlerCodes :
       /\ handlerLog' = Append(handlerLog, [op |-> "status", code |-> code,
                                            data |-> <<>>])
       /\ IF c.Writer = "capture"
          THEN /\ writer' = WriteHeader(writer, code)
               /\ c' = c
          ELSE /\ c' = [c EXCEPT !.conn = connWriteHeader(@, code)]
               /\ writer' = writer
  /\ handlerOps' = handlerOps + 1
  /\ UNCHANGED <<config, timingOption, pc, ret, requestBody, result, hookErr, settleResult,
                 events, handlerSaw, callbackSaw>>
  /\ UNCHANGED <<httpRequest, timeoutCtx, handlerRead>>
  /\ UNCHANGED otherVars

\* the business handler writes body bytes
Handler_Write ==
  /\ pc = "handler"
  /\ handlerOps < MaxHandlerOps
  /\ \E b \in HandlerBytes :
       /\ handlerLog' = Append(handlerLog, [op |-> "write", code |-> 0,
                                            data |-> <<b>>])
       /\ IF c.Writer = "capture"
          THEN /\ writer' = Write(writer, <<b>>)
               /\ c' = c
          ELSE /\ c' = [c EXCEPT !.conn = connWrite(@, <<b>>)]
               /\ writer' = writer
  /\ handlerOps' = handlerOps + 1
  /\ UNCHANGED <<config, timingOption, pc, ret, requestBody, result, hookErr, settleResult,
                 events, handlerSaw, callbackSaw>>
  /\ UNCHANGED <<httpRequest, timeoutCtx, handlerRead>>
  /\ UNCHANGED otherVars

\* the business handler calls c.Abort()
\* c.Header(key, value) by the handler, before it sets a status or writes:
\* responseCapture does not override Header(), so with or without the
\* capture the call reaches the real writer's header map
Handler_Header ==
  /\ pc = "handler"
  /\ handlerOps = 0
  /\ c' = Header(c, HandlerHeader[1], HandlerHeader[2])
  /\ handlerOps' = handlerOps + 1
  /\ UNCHANGED <<config, timingOption, pc, ret, writer, requestBody, result,
                 hookErr, settleResult, events, handlerSaw, callbackSaw>>
  /\ UNCHANGED envVars
  /\ UNCHANGED otherVars

Handler_Abort ==
  /\ pc = "handler"
  /\ ~c.aborted
  /\ c' = Abort(c)
  /\ UNCHANGED <<config, timingOption, pc, ret, writer, requestBody, result, hookErr,
                 settleResult, events, handlerOps, handlerSaw, callbackSaw>>
  /\ UNCHANGED envVars
  /\ UNCHANGED otherVars

\* the business handler reads c.Request.Body
Handler_ReadBody ==
  /\ pc = "handler"
  /\ ~handlerRead.done
  /\ ~httpRequest.Body.nil
  /\ handlerRead' = [done |-> TRUE, bytes |-> ReadAll(httpRequest.Body).bytes]
  /\ httpRequest' = [httpRequest EXCEPT !.Body = ReadAll(@).rest]
  /\ UNCHANGED <<config, timingOption, pc, ret, c, writer, requestBody, result, hookErr,
                 settleResult, events, handlerOps, handlerSaw, callbackSaw, timeoutCtx,
                 handlerLog>>
  /\ UNCHANGED otherVars

\* the deadline of ctx expires, or the host request is cancelled, while an
\* engine call is pending or while the business handler runs inside the
\* middleware; only the engine calls look at ctx, so an expiry acts when the
\* next engine call is made
CtxDone ==
  /\ timeoutCtx.active
  /\ ~timeoutCtx.done
  /\ pc \in {"process", "settle", "handler"}
  /\ pc = "handler" => ret = "afterNext" \/ ret = "return"
  /\ timeoutCtx' = [timeoutCtx EXCEPT !.done = TRUE, !.at = pc]
  /\ UNCHANGED <<config, timingOption, pc, ret, c, writer, requestBody, result, hookErr,
                 settleResult, events, handlerOps, handlerSaw, callbackSaw, httpRequest,
                 handlerLog, handlerRead>>
  /\ UNCHANGED otherVars

\* the business handler returns to whoever called c.Next()
Handler_Return ==
  /\ pc = "handler"
  /\ pc' = ret
  /\ UNCHANGED <<config, timingOption, reqVars>>
  /\ UNCHANGED otherVars

\* the middleware function returns: gin runs the rest of the chain unless
\* it already ran or the request was aborted
Return ==
  /\ pc = "return"
  /\ IF ~c.aborted /\ \A i \in DOMAIN events : events[i] # "handler"
     THEN /\ StartHandler(c, "finish")
          /\ events' = events \o <<"handler">>
     ELSE /\ pc' = "finish"
          /\ UNCHANGED <<ret, events, handlerSaw>>
  /\ UNCHANGED <<config, timingOption, c, writer, requestBody, result, hookErr,
                 settleResult, handlerOps>>
  /\ UNCHANGED envVars
  /\ UNCHANGED callbackSaw
  /\ UNCHANGED otherVars

\* the chain is over: gin sends the header if nothing was written
Finish ==
  /\ pc = "finish"
  /\ c' = [c EXCEPT !.conn = connWriteHeaderNow(@)]
  /\ pc' = "done"
  /\ UNCHANGED <<config, timingOption, ret, writer, requestBody, result, hookErr,
                 settleResult, events, handlerOps, handlerSaw, callbackSaw>>
  /\ UNCHANGED envVars
  /\ UNCHANGED otherVars

Next ==
  \/ WithSettlementTiming
  \/ WithBeforeSettleHook
  \/ WithErrorHandler
  \/ WithSettlementHandler
  \/ Request
  \/ ProcessHTTPRequest
  \/ NoPaymentRequired
  \/ handlePaymentError
  \/ UnknownResult
  \/ PaymentVerifiedBefore
  \/ SettleBefore_Hook
  \/ SettleBefore_Settle
  \/ PaymentVerifiedAfter
  \/ SettleAfter_Aborted
  \/ SettleAfter_Restore
  \/ SettleAfter_Hook
  \/ SettleAfter_Settle
  \/ Handler_Status
  \/ Handler_Write
  \/ Handler_Header
  \/ Handler_Abort
  \/ Handler_ReadBody
  \/ Handler_Return
  \/ CtxDone
  \/ Return
  \/ Finish

(* ------------------------------------------------------------------------- *)
(* Context-based pricing: SetContextValueGin and ContextPrice                *)
(* ------------------------------------------------------------------------- *)

MaxSets == 3

PriceKeys == {"x402:price", "x402:order"}

\* values stored in a context are of any type (interface{}); a price is a
\* string
CtxValues ==
  {[type |-> "string", v |-> s] : s \in {"1.00", "2.50"}}
  \cup {[type |-> "float64", v |-> "1.00"]}

NilValue == [type |-> "nil", v |-> ""]

NilPrice == [isNil |-> TRUE, v |-> ""]

\* context.WithValue: a new context wrapping the parent
WithValue(ctx, key, value) == Append(ctx, [key |-> key, val |-> value])

\* a lookup that answers with the outermost (oldest) entry of the key
ValueOldest(ctx, key) ==
  IF \E i \in DOMAIN ctx : ctx[i].key = key
  THEN ctx[CHOOSE i \in DOMAIN ctx :
             /\ ctx[i].key = key
             /\ \A j \in DOMAIN ctx : ctx[j].key = key => i <= j].val
  ELSE NilValue

\* ctx.Value(key): the innermost entry of the key, nil when there is none
RECURSIVE Value(_, _)
Value(ctx, key) ==
  IF ctx = <<>> THEN NilValue
  ELSE IF ctx[Len(ctx)].key = key THEN ctx[Len(ctx)].val
  ELSE Value(SubSeq(ctx, 1, Len(ctx) - 1), key)

\* a price function that falls back to a zero price
ContextPriceOrZero(key, ctx) ==
  IF Value(ctx, key).type = "string"
  THEN [price |-> [isNil |-> FALSE, v |-> Value(ctx, key).v], err |-> <<>>]
  ELSE [price |-> [isNil |-> FALSE, v |-> "0"], err |-> <<>>]

\* the DynamicPriceFunc returned by ContextPrice(key), applied to ctx
ContextPrice(key, ctx) ==
  IF Value(ctx, key).type = "string"
  THEN [price |-> [isNil |-> FALSE, v |-> Value(ctx, key).v], err |-> <<>>]
  ELSE [price |-> NilPrice,
        err |-> <<"price not found in context with key: %s", key>>]

NoPriceCtx == [made |-> FALSE, chain |-> <<>>]

NoPriceResult == [called |-> FALSE, key |-> "", price |-> NilPrice, err |-> <<>>]

PriceInit ==
  /\ requestCtx = <<>>
  /\ priceCtx = NoPriceCtx
  /\ priceResult = NoPriceResult

\* SetContextValueGin(c, key, value), by any stage of the chain
SetContextValueGin ==
  /\ Len(requestCtx) < MaxSets
  /\ \E key \in PriceKeys, value \in CtxValues :
       requestCtx' = WithValue(requestCtx, key, value)
  /\ UNCHANGED <<priceCtx, priceResult>>
  /\ UNCHANGED <<mainVars, multiVars, captureVars, initVars, hookVars, chainVars, clientVars>>

\* ctx, cancel := context.WithTimeout(c.Request.Context(), config.Timeout)
WithTimeout ==
  /\ ~priceCtx.made
  /\ priceCtx' = [made |-> TRUE, chain |-> requestCtx]
  /\ UNCHANGED <<requestCtx, priceResult>>
  /\ UNCHANGED <<mainVars, multiVars, captureVars, initVars, hookVars, chainVars, clientVars>>

\* the engine evaluates the route's price function on the context it got
EvaluatePrice ==
  /\ priceCtx.made
  /\ \E key \in PriceKeys :
       priceResult' = [called |-> TRUE, key |-> key,
                       price |-> ContextPrice(key, priceCtx.chain).price,
                       err |-> ContextPrice(key, priceCtx.chain).err]
  /\ UNCHANGED <<requestCtx, priceCtx>>
  /\ UNCHANGED <<mainVars, multiVars, captureVars, initVars, hookVars, chainVars, clientVars>>

NextPrice == SetContextValueGin \/ WithTimeout \/ EvaluatePrice

(* ------------------------------------------------------------------------- *)
(* Several requests through one middleware                                    *)
(* ------------------------------------------------------------------------- *)

NumRequests == 2

Requests == 1 .. NumRequests

\* the payment payloads clients send; a client may send a payload again
Payloads == {"payloadA", "payloadB"}

\* the prices the upstream stage may compute for a request
Prices == {"1.00", "2.50"}

NoPrice == ""

NoData == [payload |-> "", tx |-> 0]

Idle ==
  [pc |-> "idle", payload |-> "", price |-> NoPrice, priceSeen |-> NoPrice,
   verified |-> FALSE, vetoed |-> FALSE, ok |-> FALSE, tx |-> 0,
   saw |-> NoData, outcome |-> "none"]

\* a gin.Context as far as the orchestrator and the helpers write to it: the
\* price on the request's context, the PaymentData in Keys
FreshContext == [price |-> NoPrice, paymentData |-> NoData]

MultiInit ==
  /\ served = [r \in Requests |-> Idle]
  /\ settled = {}
  /\ settleCalls = <<>>
  /\ contexts = [r \in Requests |-> FreshContext]

\* a single context used for every request
contextOfShared(r) == 1

\* the c *gin.Context the handler function is called with: the request's own
contextOf(r) == r

\* a request carrying a payment payload arrives; the upstream stage stores
\* its price with SetContextValueGin and the request enters
\* createMiddlewareHandler
Serve_Request(r) ==
  /\ served[r].pc = "idle"
  /\ \E p \in Payloads, price \in Prices :
       /\ served' = [served EXCEPT ![r] = [Idle EXCEPT !.pc = "process",
                                                       !.payload = p,
                                                       !.price = price]]
       /\ contexts' = [contexts EXCEPT ![contextOf(r)].price = price]
  /\ UNCHANGED <<settled, settleCalls>>
  /\ UNCHANGED <<mainVars, priceVars, captureVars, initVars, hookVars, chainVars, clientVars>>

\* result := server.ProcessHTTPRequest(ctx, reqCtx, ...): the engine reads
\* the price from the context and verifies the payload; it refuses a payload
\* it has already settled
Serve_ProcessHTTPRequest(r) ==
  /\ served[r].pc = "process"
  /\ \E verified \in BOOLEAN :
       /\ served[r].payload \in settled => ~verified
       /\ served' = [served EXCEPT
                       ![r].priceSeen = contexts[contextOf(r)].price,
                       ![r].verified = verified,
                       ![r].pc = IF verified THEN "verified" ELSE "done",
                       ![r].outcome = IF verified THEN "none" ELSE "error"]
  /\ UNCHANGED <<settled, settleCalls, contexts>>
  /\ UNCHANGED <<mainVars, priceVars, captureVars, initVars, hookVars, chainVars, clientVars>>

\* the request ends before ProcessSettlement: hook veto, or in after-timing
\* a failed or aborted handler
Serve_NoSettlement(r) ==
  /\ served[r].pc = "verified"
  /\ served' = [served EXCEPT ![r].pc = "done", ![r].vetoed = TRUE,
                              ![r].outcome = "vetoed"]
  /\ UNCHANGED <<settled, settleCalls, contexts>>
  /\ UNCHANGED <<mainVars, priceVars, captureVars, initVars, hookVars, chainVars, clientVars>>

\* settleResult := server.ProcessSettlement(ctx, *result.PaymentPayload, ...)
\* and, on success, c.Set(PaymentDataKey, paymentData)
Serve_ProcessSettlement(r) ==
  /\ served[r].pc = "verified"
  /\ settleCalls' = Append(settleCalls, served[r].payload)
  /\ \E success \in BOOLEAN :
       /\ served[r].payload \in settled => ~success
       /\ settled' = IF success THEN settled \cup {served[r].payload}
                     ELSE settled
       /\ served' = [served EXCEPT
                       ![r].pc = IF success THEN "handler" ELSE "done",
                       ![r].ok = success,
                       ![r].tx = Len(settleCalls'),
                       ![r].outcome = IF success THEN "none"
                                      ELSE "settlement failed"]
       /\ contexts' = IF success
                      THEN [contexts EXCEPT ![contextOf(r)].paymentData =
                              [payload |-> served[r].payload,
                               tx |-> Len(settleCalls')]]
                      ELSE contexts
  /\ UNCHANGED <<mainVars, priceVars, captureVars, initVars, hookVars, chainVars, clientVars>>

\* c.Next(): the handler calls GetPaymentData(c)
Serve_Handler(r) ==
  /\ served[r].pc = "handler"
  /\ served' = [served EXCEPT
                  ![r].pc = "done",
                  ![r].saw = contexts[contextOf(r)].paymentData,
                  ![r].outcome = "handled"]
  /\ UNCHANGED <<settled, settleCalls, contexts>>
  /\ UNCHANGED <<mainVars, priceVars, captureVars, initVars, hookVars, chainVars, clientVars>>

NextMulti ==
  \E r \in Requests :
    \/ Serve_Request(r)
    \/ Serve_ProcessHTTPRequest(r)
    \/ Serve_NoSettlement(r)
    \/ Serve_ProcessSettlement(r)
    \/ Serve_Handler(r)

(* ------------------------------------------------------------------------- *)
(* responseCapture under concurrent callers                                   *)
(* ------------------------------------------------------------------------- *)

NumCallers == 3

Callers == 1 .. NumCallers

\* the bytes of caller t's Write call: two bytes, distinct from any other
\* caller's
DataOf(t) == <<10 * t + 1, 10 * t + 2>>

NotCalling == [pc |-> "idle", op |-> "none", code |-> 0, n |-> 0]

CaptureInit ==
  /\ shared = [statusCode |-> StatusOK, written |-> FALSE, body |-> <<>>]
  /\ mu = 0
  /\ callers = [t \in Callers |-> NotCalling]
  /\ fixes = 0

\* a lock that lets every caller in
lockFreeAlways(m) == TRUE

\* w.mu.Lock() returns only when nobody holds the mutex
lockFree(m) == m = 0

\* a goroutine calls w.WriteHeader(code) or w.Write(data)
Cap_Call(t) ==
  /\ callers[t].pc = "idle"
  /\ \/ \E code \in HandlerCodes :
          callers' = [callers EXCEPT ![t] =
                        [pc |-> "lock", op |-> "WriteHeader", code |-> code,
                         n |-> 0]]
     \/ callers' = [callers EXCEPT ![t] =
                      [pc |-> "lock", op |-> "Write", code |-> StatusOK,
                       n |-> 0]]
  /\ UNCHANGED <<shared, mu, fixes>>
  /\ UNCHANGED <<mainVars, priceVars, multiVars, initVars, hookVars, chainVars, clientVars>>

\* w.mu.Lock()
Cap_Lock(t) ==
  /\ callers[t].pc = "lock"
  /\ lockFree(mu)
  /\ mu' = t
  /\ callers' = [callers EXCEPT ![t].pc = "check"]
  /\ UNCHANGED <<shared, fixes>>
  /\ UNCHANGED <<mainVars, priceVars, multiVars, initVars, hookVars, chainVars, clientVars>>

\* if !w.written
Cap_Check(t) ==
  /\ callers[t].pc = "check"
  /\ callers' = [callers EXCEPT ![t].pc =
                   IF ~shared.written THEN "set"
                   ELSE IF callers[t].op = "Write" THEN "write"
                   ELSE "unlock"]
  /\ UNCHANGED <<shared, mu, fixes>>
  /\ UNCHANGED <<mainVars, priceVars, multiVars, initVars, hookVars, chainVars, clientVars>>

\* w.statusCode = code; w.written = true
Cap_Set(t) ==
  /\ callers[t].pc = "set"
  /\ shared' = [shared EXCEPT !.statusCode = callers[t].code,
                              !.written = TRUE]
  /\ fixes' = fixes + 1
  /\ callers' = [callers EXCEPT ![t].pc =
                   IF callers[t].op = "Write" THEN "write" ELSE "unlock"]
  /\ UNCHANGED mu
  /\ UNCHANGED <<mainVars, priceVars, multiVars, initVars, hookVars, chainVars, clientVars>>

\* w.body.Write(data), one byte at a time
Cap_WriteByte(t) ==
  /\ callers[t].pc = "write"
  /\ shared' = [shared EXCEPT !.body =
                   Append(@, DataOf(t)[callers[t].n + 1])]
  /\ callers' = [callers EXCEPT
                   ![t].n = @ + 1,
                   ![t].pc = IF callers[t].n + 1 = Len(DataOf(t))
                             THEN "unlock" ELSE "write"]
  /\ UNCHANGED <<mu, fixes>>
  /\ UNCHANGED <<mainVars, priceVars, multiVars, initVars, hookVars, chainVars, clientVars>>

\* defer w.mu.Unlock()
Cap_Unlock(t) ==
  /\ callers[t].pc = "unlock"
  /\ mu' = 0
  /\ callers' = [callers EXCEPT ![t].pc = "done"]
  /\ UNCHANGED <<shared, fixes>>
  /\ UNCHANGED <<mainVars, priceVars, multiVars, initVars, hookVars, chainVars, clientVars>>

NextCapture ==
  \E t \in Callers :
    \/ Cap_Call(t)
    \/ Cap_Lock(t)
    \/ Cap_Check(t)
    \/ Cap_Set(t)
    \/ Cap_WriteByte(t)
    \/ Cap_Unlock(t)

(* ------------------------------------------------------------------------- *)
(* The constructor: PaymentMiddleware / PaymentMiddlewareFromConfig          *)
(* ------------------------------------------------------------------------- *)

\* config := &MiddlewareConfig{SyncFacilitatorOnStart: true, ...,
\*                            SettlementTiming: "after"}
DefaultConfig ==
  [SyncFacilitatorOnStart |-> TRUE, SettlementTiming |-> "after",
   BeforeSettleHook |-> FALSE]

NoHandlerFunc == [made |-> FALSE, config |-> DefaultConfig]

NoDispatch ==
  [done |-> FALSE, required |-> FALSE, resultType |-> "none",
   branch |-> "none"]

InitInit ==
  /\ ctor = [pc |-> "options", config |-> DefaultConfig, initErr |-> "none"]
  /\ warnings = <<>>
  /\ handlerFunc = NoHandlerFunc
  /\ dispatched = NoDispatch

\* a constructor for which a failed Initialize is fatal
afterInitializeFatal(err) == IF err THEN "failed" ELSE "return"

\* if err := httpServer.Initialize(ctx); err != nil { fmt.Printf(...) }
afterInitialize(err) == "return"

\* return createMiddlewareHandler(httpServer, config)
createMiddlewareHandler(cfg) == [made |-> TRUE, config |-> cfg]

\* the branch the handler function takes for a request
Dispatch(cfg, required, resultType) ==
  IF ~required THEN "c.Next"
  ELSE IF resultType = ResultNoPaymentRequired THEN "c.Next"
  ELSE IF resultType = ResultPaymentError THEN "handlePaymentError"
  ELSE IF resultType = ResultPaymentVerified
       THEN IF settleBeforeHandler(cfg)
            THEN "handlePaymentVerifiedSettleBefore:" \o hookOrSettle(cfg)
            ELSE "handlePaymentVerifiedSettleAfter"
  ELSE "return"

\* for _, opt := range opts { opt(config) }
Ctor_Option ==
  /\ ctor.pc = "options"
  /\ \/ \E sync \in BOOLEAN :
          ctor' = [ctor EXCEPT !.config.SyncFacilitatorOnStart = sync]
     \/ \E t \in Timings :
          ctor' = [ctor EXCEPT !.config.SettlementTiming = t]
     \/ ctor' = [ctor EXCEPT !.config.BeforeSettleHook = TRUE]
  /\ UNCHANGED <<warnings, handlerFunc, dispatched>>
  /\ UNCHANGED <<mainVars, priceVars, multiVars, captureVars, hookVars, chainVars, clientVars>>

\* if config.SyncFacilitatorOnStart { ... httpServer.Initialize(ctx) ... }
Ctor_Initialize ==
  /\ ctor.pc = "options"
  /\ ctor.config.SyncFacilitatorOnStart
  /\ \E err \in BOOLEAN :
       /\ ctor' = [ctor EXCEPT !.pc = afterInitialize(err),
                               !.initErr = IF err THEN "err" ELSE "nil"]
       /\ warnings' = IF err
                      THEN Append(warnings,
                                  "Warning: failed to initialize x402 server")
                      ELSE warnings
  /\ UNCHANGED <<handlerFunc, dispatched>>
  /\ UNCHANGED <<mainVars, priceVars, multiVars, captureVars, hookVars, chainVars, clientVars>>

\* SyncFacilitatorOnStart is false: Initialize is not called
Ctor_NoInitialize ==
  /\ ctor.pc = "options"
  /\ ~ctor.config.SyncFacilitatorOnStart
  /\ ctor' = [ctor EXCEPT !.pc = "return"]
  /\ UNCHANGED <<warnings, handlerFunc, dispatched>>
  /\ UNCHANGED <<mainVars, priceVars, multiVars, captureVars, hookVars, chainVars, clientVars>>

Ctor_Return ==
  /\ ctor.pc = "return"
  /\ handlerFunc' = createMiddlewareHandler(ctor.config)
  /\ ctor' = [ctor EXCEPT !.pc = "serving"]
  /\ UNCHANGED <<warnings, dispatched>>
  /\ UNCHANGED <<mainVars, priceVars, multiVars, captureVars, hookVars, chainVars, clientVars>>

\* the returned handler function serves a request
Ctor_Serve ==
  /\ handlerFunc.made
  /\ \E required \in BOOLEAN, r \in ProcessResults :
       dispatched' = [done |-> TRUE, required |-> required,
                      resultType |-> r.Type,
                      branch |-> Dispatch(handlerFunc.config, required, r.Type)]
  /\ UNCHANGED <<ctor, warnings, handlerFunc>>
  /\ UNCHANGED <<mainVars, priceVars, multiVars, captureVars, hookVars, chainVars, clientVars>>

NextInit ==
  \/ Ctor_Option
  \/ Ctor_Initialize
  \/ Ctor_NoInitialize
  \/ Ctor_Return
  \/ Ctor_Serve

(* ------------------------------------------------------------------------- *)
(* CreateBeforeSettleHook                                                     *)
(* ------------------------------------------------------------------------- *)

MaxAttempts == 5

\* what validateFn(settleCtx.Ctx) may return: nil or an error with a message
ValidateResults == {Nil, "out of stock", "price changed"}

NilHookResult == [isNil |-> TRUE, Abort |-> FALSE, Reason |-> ""]

HookInit ==
  /\ validateLog = <<>>
  /\ hookReturns = <<>>

\* a hook that hands the validation error back as its own error
CreateBeforeSettleHookAsError(err) ==
  IF err # Nil
  THEN [result |-> NilHookResult, err |-> err]
  ELSE [result |-> NilHookResult, err |-> Nil]

\* the hook returned by CreateBeforeSettleHook(validateFn), given what
\* validateFn returned: (&BeforeHookResult{Abort: true, Reason: err.Error()},
\* nil) or (nil, nil)
CreateBeforeSettleHook(err) ==
  IF err # Nil
  THEN [result |-> [isNil |-> FALSE, Abort |-> TRUE, Reason |-> err],
        err |-> Nil]
  ELSE [result |-> NilHookResult, err |-> Nil]

\* the engine runs the hook for a settle attempt; the hook calls validateFn
Hook_Call ==
  /\ Len(hookReturns) < MaxAttempts
  /\ \E err \in ValidateResults :
       /\ validateLog' = Append(validateLog, err)
       /\ hookReturns' = Append(hookReturns, CreateBeforeSettleHook(err))
  /\ UNCHANGED <<mainVars, priceVars, multiVars, captureVars, initVars, chainVars, clientVars>>

NextHook == Hook_Call

(* ------------------------------------------------------------------------- *)
(* The example's chain: calculateOrderTotal, PaymentMiddleware, processOrder  *)
(* ------------------------------------------------------------------------- *)

MaxItems == 2

\* the products map of the example, prices in cents
products ==
  [id \in {"cowboy-duck", "artiste-duck", "batman-duck"} |->
     IF id = "batman-duck" THEN 250 ELSE 150]

\* product ids a request may name; "rubber-duck" is not in the products map
ProductIDs == {"cowboy-duck", "batman-duck", "rubber-duck"}

Quantities == {-1, 0, 1, 2}

OrderItems == [ProductID : ProductIDs, Quantity : Quantities]

ItemLists == UNION {[1..n -> OrderItems] : n \in 0..MaxItems}

\* the body of a purchase request: one whose read fails, one that is not
\* JSON, or a PurchaseRequest with its items
PurchaseBodies ==
  {[readErr |-> TRUE, json |-> FALSE, Items |-> <<>>],
   [readErr |-> FALSE, json |-> FALSE, Items |-> <<>>]}
  \cup {[readErr |-> FALSE, json |-> TRUE, Items |-> l] : l \in ItemLists}

NoBody == [readErr |-> FALSE, json |-> FALSE, Items |-> <<>>]

IdleChain ==
  [pc |-> "idle", body |-> NoBody, status |-> 0, error |-> "",
   aborted |-> FALSE, price |-> NoPrice, paymentData |-> FALSE]

ChainInit ==
  /\ chain = IdleChain
  /\ engineCalls = [verify |-> 0, settle |-> 0]
  /\ orders = <<>>

\* fmt.Sprintf("%.2f", total) of a total given in cents
formatPrice(cents) ==
  ToString(cents \div 100) \o "." \o ToString((cents % 100) \div 10)
    \o ToString(cents % 10)

\* the loop of calculateOrderTotal over req.Items from item i on: the first
\* unknown product or non-positive quantity ends it with that error
RECURSIVE orderTotal(_, _, _)
orderTotal(items, i, total) ==
  IF i > Len(items) THEN [error |-> "", total |-> total]
  ELSE IF items[i].ProductID \notin DOMAIN products
  THEN [error |-> "Unknown product: " \o items[i].ProductID, total |-> 0]
  ELSE IF items[i].Quantity <= 0
  THEN [error |-> "Quantity must be greater than 0", total |-> 0]
  ELSE orderTotal(items, i + 1,
                  total + products[items[i].ProductID] * items[i].Quantity)

\* a rejection that answers 400 and lets the chain go on
rejectOrderNoAbort(ctx, msg) ==
  [ctx EXCEPT !.status = 400, !.error = msg]

\* c.JSON(400, gin.H{"error": msg}); c.Abort(); return
rejectOrder(ctx, msg) ==
  [ctx EXCEPT !.status = 400, !.error = msg, !.aborted = TRUE]

\* calculateOrderTotal on a context: rejects, or stores the price under
\* "x402:price" and calls c.Next()
calculateOrderTotal(ctx) ==
  IF ctx.body.readErr THEN rejectOrder(ctx, "Failed to read request body")
  ELSE IF ~ctx.body.json THEN rejectOrder(ctx, "Invalid order data")
  ELSE LET t == orderTotal(ctx.body.Items, 1, 0) IN
       IF t.error # "" THEN rejectOrder(ctx, t.error)
       ELSE IF t.total = 0 THEN rejectOrder(ctx, "Cart is empty")
       ELSE [ctx EXCEPT !.price = formatPrice(t.total)]

\* a POST /api/purchase arrives
Chain_Request ==
  /\ chain.pc = "idle"
  /\ \E b \in PurchaseBodies : chain' = [chain EXCEPT !.pc = "validate", !.body = b]
  /\ UNCHANGED <<engineCalls, orders>>
  /\ UNCHANGED <<mainVars, priceVars, multiVars, captureVars, initVars, hookVars, clientVars>>

\* gin runs the first handler of the route
Chain_calculateOrderTotal ==
  /\ chain.pc = "validate"
  /\ chain' = [calculateOrderTotal(chain) EXCEPT !.pc = "payment"]
  /\ UNCHANGED <<engineCalls, orders>>
  /\ UNCHANGED <<mainVars, priceVars, multiVars, captureVars, initVars, hookVars, clientVars>>

\* gin runs the payment middleware unless the context is aborted; the route
\* settles before the handler: a payment error or a failed settlement answers
\* 402 and aborts, a settlement that succeeded stores PaymentData
Chain_PaymentMiddleware ==
  /\ chain.pc = "payment"
  /\ ~chain.aborted
  /\ \E outcome \in {"payment-error", "settle-failed", "settled"} :
       /\ engineCalls' =
            [verify |-> engineCalls.verify + 1,
             settle |-> engineCalls.settle
                          + (IF outcome = "payment-error" THEN 0 ELSE 1)]
       /\ chain' =
            IF outcome = "settled"
            THEN [chain EXCEPT !.paymentData = TRUE, !.pc = "order"]
            ELSE [chain EXCEPT !.status = 402, !.aborted = TRUE, !.pc = "order"]
  /\ UNCHANGED orders
  /\ UNCHANGED <<mainVars, priceVars, multiVars, captureVars, initVars, hookVars, clientVars>>

\* gin does not run the handlers that remain once the context is aborted
Chain_Skip ==
  /\ chain.pc \in {"payment", "order"}
  /\ chain.aborted
  /\ chain' = [chain EXCEPT !.pc = "done"]
  /\ UNCHANGED <<engineCalls, orders>>
  /\ UNCHANGED <<mainVars, priceVars, multiVars, captureVars, initVars, hookVars, clientVars>>

\* processOrder: 500 without PaymentData, 400 when the captured body does not
\* parse, else the order is recorded and 200 answered
Chain_processOrder ==
  /\ chain.pc = "order"
  /\ ~chain.aborted
  /\ IF ~chain.paymentData
     THEN /\ chain' = [chain EXCEPT !.status = 500, !.pc = "done",
                                    !.error = "Payment data not available"]
          /\ UNCHANGED orders
     ELSE IF ~chain.body.json
     THEN /\ chain' = [chain EXCEPT !.status = 400, !.pc = "done",
                                    !.error = "Invalid order data"]
          /\ UNCHANGED orders
     ELSE /\ chain' = [chain EXCEPT !.status = 200, !.pc = "done"]
          /\ orders' = Append(orders, chain.body.Items)
  /\ UNCHANGED engineCalls
  /\ UNCHANGED <<mainVars, priceVars, multiVars, captureVars, initVars, hookVars, clientVars>>

NextChain ==
  \/ Chain_Request
  \/ Chain_calculateOrderTotal
  \/ Chain_PaymentMiddleware
  \/ Chain_Skip
  \/ Chain_processOrder

(* ------------------------------------------------------------------------- *)
(* The React client's price discovery                                         *)
(* ------------------------------------------------------------------------- *)

MaxDiscoveries == 2

\* the orderData props the host page may pass
OrderDatas == {"cart-a", "cart-b", "cart-c"}

NoOrderData == ""

\* the first entry of accepts in the PAYMENT-REQUIRED header the server
\* answers for an order
Offer(o) ==
  IF o = "cart-a"
  THEN [network |-> "eip155:84532", asset |-> "0xusdc-sepolia",
        payTo |-> "0xshop", amount |-> "1500000"]
  ELSE IF o = "cart-b"
  THEN [network |-> "eip155:8453", asset |-> "0xusdc-base",
        payTo |-> "0xshop2", amount |-> "2500000"]
  ELSE [network |-> "eip155:5", asset |-> "0xusdc-goerli",
        payTo |-> "0xshop", amount |-> "4000000"]

\* parseInt(network.split(':')[1])
parsedChainId(network) ==
  IF network = "eip155:84532" THEN 84532
  ELSE IF network = "eip155:8453" THEN 8453
  ELSE 5

supportedChainIds ==
  {1, 10, 11155111, 8453, 84532, 11155420, 42161, 421614, 137, 80002, 43114,
   43113, 59144, 59141, 324, 300}

isSupportedChainId(value) == value \in supportedChainIds

\* the useState initial values
NewComponent ==
  [orderData |-> NoOrderData, network |-> "", chainId |-> 0,
   isChainSupported |-> FALSE, tokenAddress |-> "", recipientAddress |-> "",
   amount |-> "", isDiscoveringAccepts |-> FALSE]

\* what a discovery fetch may come back with: a 402 carrying the
\* PAYMENT-REQUIRED header, another status, or a rejected fetch
DiscoveryReplies == {"402", "other-status", "fetch-error"}

ClientInit ==
  /\ component = NewComponent
  /\ discoveries = <<>>

\* the body of discoverAccepts after the awaited fetch, for the order the
\* request was issued with: the setters of the 402 branch, then the finally
\* block
discoveryArrived(comp, o, reply) ==
  LET accepted == reply = "402" /\ isSupportedChainId(parsedChainId(Offer(o).network))
      set == IF reply # "402" THEN comp
             ELSE IF ~accepted THEN [comp EXCEPT !.isChainSupported = FALSE]
             ELSE [comp EXCEPT !.isChainSupported = TRUE,
                               !.network = Offer(o).network,
                               !.chainId = parsedChainId(Offer(o).network),
                               !.tokenAddress = Offer(o).asset,
                               !.recipientAddress = Offer(o).payTo,
                               !.amount = Offer(o).amount]
  IN [set EXCEPT !.isDiscoveringAccepts = FALSE]

\* the page passes a new orderData: the effect runs discoverAccepts, which
\* sets isDiscoveringAccepts and issues the fetch
Client_discoverAccepts ==
  /\ Len(discoveries) < MaxDiscoveries
  /\ \E o \in OrderDatas :
       /\ o # component.orderData
       /\ component' = [component EXCEPT !.orderData = o,
                                         !.isDiscoveringAccepts = TRUE]
       /\ discoveries' = Append(discoveries, [orderData |-> o, reply |-> "pending"])
  /\ UNCHANGED <<mainVars, priceVars, multiVars, captureVars, initVars, hookVars, chainVars>>

\* the fetch of one pending discovery settles and its continuation runs
Client_DiscoveryArrives ==
  /\ \E i \in DOMAIN discoveries, reply \in DiscoveryReplies :
       /\ discoveries[i].reply = "pending"
       /\ component' = discoveryArrived(component, discoveries[i].orderData, reply)
       /\ discoveries' = [discoveries EXCEPT ![i].reply = reply]
  /\ UNCHANGED <<mainVars, priceVars, multiVars, captureVars, initVars, hookVars, chainVars>>

NextClient ==
  \/ Client_discoverAccepts
  \/ Client_DiscoveryArrives

Init ==
  MainInit /\ PriceInit /\ MultiInit /\ CaptureInit /\ InitInit /\ HookInit
    /\ ChainInit /\ ClientInit

SpecClient == Init /\ [][NextClient]_vars

SpecChain == Init /\ [][NextChain]_vars

SpecHook == Init /\ [][NextHook]_vars


SpecInit == Init /\ [][NextInit]_vars


SpecCapture == Init /\ [][NextCapture]_vars


SpecMulti == Init /\ [][NextMulti]_vars


SpecPrice == Init /\ [][NextPrice]_vars


Spec == Init /\ [][Next]_vars

(* ------------------------------------------------------------------------- *)
(* Properties                                                                 *)
(* ------------------------------------------------------------------------- *)

Called(e) == \E i \in DOMAIN events : events[i] = e

Count(e) == Cardinality({i \in DOMAIN events : events[i] = e})

Verified == result.Type = ResultPaymentVerified

BeforeTiming == config.SettlementTiming = "before"

Vetoed == hookErr \notin {NotCalled, Nil}

SettleFailed == Called("settle") /\ ~settleResult.Success

SettleSucceeded == Called("settle") /\ settleResult.Success

\* the middleware function has returned
Returned == pc \in {"return", "finish", "done"}

\* some of the handler's bytes are on the real connection
HandlerBytesSent == \E i \in DOMAIN c.conn.body : c.conn.body[i].kind = "raw"

\* the response on the connection is exactly the JSON object obj with status st
SentJSON(st, obj) ==
  /\ c.conn.written
  /\ c.conn.status = st
  /\ c.conn.body = <<[kind |-> "json", obj |-> obj]>>

\* C1: before-timing, payment verified: once the hook has vetoed or the
\* settlement call has failed, the business handler has not run and is not
\* running, at any later point of the request.
C1_NoFulfillmentWithoutPayment ==
  (BeforeTiming /\ Verified /\ (Vetoed \/ SettleFailed))
    => (~Called("handler") /\ pc # "handler")

C1_Witness ==
  /\ BeforeTiming /\ Verified /\ pc = "done"
  /\ SettleFailed
  /\ ~Called("handler")

\* C2 as stated: after-timing, the handler finished without aborting with a
\* captured status < 400 and settlement then failed: the client receives a
\* 402 response and none of the handler's status or bytes.
C2_Original ==
  (~BeforeTiming /\ Verified /\ Called("handler") /\ ~c.aborted
   /\ writer.statusCode < 400 /\ SettleFailed /\ pc = "done")
    => (c.conn.written /\ c.conn.status = StatusPaymentRequired
        /\ ~HandlerBytesSent)

\* C2 amended: the handler's bytes never reach the client after a failed
\* settlement, and with no custom error handler configured the response is
\* the 402 error and nothing else.
C2_NoDeliveryWithoutPayment ==
  (~BeforeTiming /\ Verified /\ SettleFailed)
    => /\ ~HandlerBytesSent
       /\ (~config.ErrorHandler /\ pc = "done")
            => /\ c.conn.written
               /\ c.conn.status = StatusPaymentRequired
               /\ Len(c.conn.body) = 1
               /\ c.conn.body[1].kind = "json"

C2_Witness ==
  /\ ~BeforeTiming /\ Verified /\ SettleFailed /\ pc = "done"
  /\ ~config.ErrorHandler
  /\ ~c.aborted
  /\ writer.statusCode = 201
  /\ Len(writer.body) > 0

\* C3: the settlement operation is called at most once per request.
C3_AtMostOnceSettlement == Count("settle") <= 1

C3_Witness ==
  /\ pc = "done"
  /\ SettleFailed
  /\ settleResult.ErrorReason = "context deadline exceeded"
  /\ Count("settle") = 1

\* C4: the before-settle hook is called at most once, only when configured
\* and after the payment was verified, and before every settlement call;
\* when a hook is configured no settlement call is made without it.
C4_HookOrdering ==
  /\ Count("hook") <= 1
  /\ Called("hook") => (config.BeforeSettleHook /\ Verified)
  /\ \A i, j \in DOMAIN events :
       (events[i] = "hook" /\ events[j] = "verify") => j < i
  /\ \A i, j \in DOMAIN events :
       (events[i] = "hook" /\ events[j] = "settle") => i < j
  /\ (config.BeforeSettleHook /\ Called("settle")) => Called("hook")

C4_Witness ==
  /\ pc = "done"
  /\ Called("hook")
  /\ Called("settle")
  /\ hookErr = Nil

\* C5: after a veto the settlement operation is never called, with or
\* without a custom error handler.
C5_VetoMeansNoSettlement == Vetoed => ~Called("settle")

C5_Witness ==
  /\ pc = "done"
  /\ Vetoed
  /\ config.ErrorHandler
  /\ Called("errorHandler")

\* C6: before-timing: PaymentData is in the request store exactly when the
\* settlement call of this request has returned success.
C6_PaymentDataIffSettled ==
  BeforeTiming =>
    ((PaymentDataKey \in DOMAIN c.Keys) <=> SettleSucceeded)

C6_Witness ==
  /\ BeforeTiming
  /\ pc = "handler"
  /\ PaymentDataKey \in DOMAIN c.Keys
  /\ handlerSaw = c.Keys[PaymentDataKey]

\* C7: the calls of one request are ordered verification, hook, settlement;
\* in before-timing the handler of a verified payment starts only after a
\* successful settlement; in every other timing the hook and the settlement
\* come only after the handler.
C7_FixedOrder ==
  /\ \A i, j \in DOMAIN events :
       (events[i] = "verify" /\ events[j] \in {"hook", "settle"}) => i < j
  /\ \A i, j \in DOMAIN events :
       (events[i] = "hook" /\ events[j] = "settle") => i < j
  /\ (BeforeTiming /\ Verified) =>
       \A i \in DOMAIN events :
         events[i] = "handler" =>
           /\ settleResult.Success
           /\ \E j \in DOMAIN events : j < i /\ events[j] = "settle"
  /\ ~BeforeTiming =>
       \A j \in DOMAIN events :
         events[j] \in {"hook", "settle"} =>
           /\ \E i \in DOMAIN events : i < j /\ events[i] = "handler"
           /\ \A i \in DOMAIN events : events[i] = "handler" => i < j

C7_Witness ==
  /\ pc = "done"
  /\ config.SettlementTiming = "Before"
  /\ Called("hook")
  /\ SettleSucceeded
  /\ Called("handler")

\* C8 as stated: after-timing: whenever the captured status is >= 400 the
\* client gets the captured status and body exactly, and neither the hook
\* nor the settlement operation is called.
C8_HandlerFailureFlushed ==
  (~BeforeTiming /\ Verified /\ pc = "done" /\ writer.statusCode >= 400)
    => /\ c.conn.status = writer.statusCode
       /\ c.conn.body = writer.body
       /\ ~Called("hook")
       /\ ~Called("settle")

\* C9 as stated: a failed settlement yields status 402, error "Settlement
\* failed" and the engine's reason (or "Settlement failed") as details; in
\* before-timing the request is aborted.
C9_Original ==
  (SettleFailed /\ Returned)
    => /\ SentJSON(StatusPaymentRequired,
                   <<"Settlement failed",
                     IF settleResult.ErrorReason = "" THEN "Settlement failed"
                     ELSE settleResult.ErrorReason>>)
       /\ BeforeTiming => c.aborted

\* C9 amended: the same, the response being promised only when no custom
\* error handler is configured.
C9_SettlementFailedResponse ==
  (SettleFailed /\ Returned)
    => /\ ~config.ErrorHandler =>
            SentJSON(StatusPaymentRequired,
                     <<"Settlement failed",
                       IF settleResult.ErrorReason = ""
                       THEN "Settlement failed"
                       ELSE settleResult.ErrorReason>>)
       /\ BeforeTiming => c.aborted

C9_Witness ==
  /\ pc = "done"
  /\ SettleFailed
  /\ settleResult.ErrorReason = ""
  /\ ~config.ErrorHandler
  /\ BeforeTiming

\* C10: on a payment error the engine's status, headers and body are sent,
\* the request is aborted, and neither the hook, the settlement operation,
\* the settlement callback nor the business handler is called; no
\* PaymentData is stored.
C10_PaymentError ==
  result.Type = ResultPaymentError =>
    /\ ~Called("hook") /\ ~Called("settle")
    /\ ~Called("settlementHandler") /\ ~Called("handler")
    /\ PaymentDataKey \notin DOMAIN c.Keys
    /\ Returned =>
         /\ c.aborted
         /\ c.conn.written
         /\ c.conn.status = result.Response.Status
         /\ result.Response.Headers \subseteq c.conn.sentHeaders
         /\ c.conn.body =
              <<[kind |-> IF result.Response.IsHTML THEN "html" ELSE "json",
                 obj |-> result.Response.Body]>>

C10_Witness ==
  /\ pc = "done"
  /\ result.Type = ResultPaymentError
  /\ result.Response.IsHTML
  /\ result.Response.Status = 412
  /\ config.BeforeSettleHook
  /\ config.SettlementHandler

\* RequiresPayment returned false for this request
NotRequired == pc # "config" /\ ~httpRequest.requiresPayment

\* C11: when requiresPayment is false or processRequest returns
\* no-payment-required, the handler runs (once) and no payment machinery is
\* engaged: no hook, settlement or settlement callback call, no capture
\* installed, no PaymentData, and in the first case no processRequest call.
C11_NoPaymentMachinery ==
  (NotRequired \/ result.Type = ResultNoPaymentRequired) =>
    /\ ~Called("hook") /\ ~Called("settle") /\ ~Called("settlementHandler")
    /\ ~Called("errorHandler")
    /\ c.Writer = "real"
    /\ PaymentDataKey \notin DOMAIN c.Keys
    /\ NotRequired => ~Called("verify")
    /\ (NotRequired \/ pc # "switch") => Count("handler") = 1

C11_Witness ==
  /\ pc = "done"
  /\ result.Type = ResultNoPaymentRequired
  /\ config.BeforeSettleHook /\ config.SettlementHandler
  /\ Len(c.conn.body) = 2

\* C12: in before-timing, after a successful settlement the handler runs and
\* the PaymentData it retrieves carries the settlement's transaction, network
\* and payer, the verified payload and requirements, and the request body
\* captured at the start of the request.
C12_HandlerSeesPaymentData ==
  (BeforeTiming /\ SettleSucceeded) =>
    /\ Called("handler")
    /\ handlerSaw # NilPaymentData
    /\ handlerSaw.SettleResponse.Success
    /\ handlerSaw.SettleResponse.Transaction = settleResult.Transaction
    /\ handlerSaw.SettleResponse.Network = settleResult.Network
    /\ handlerSaw.SettleResponse.Payer = settleResult.Payer
    /\ handlerSaw.PaymentPayload = result.PaymentPayload
    /\ handlerSaw.PaymentRequirements = result.PaymentRequirements
    /\ handlerSaw.RequestBody = requestBody
    /\ ~httpRequest.sent.fails => handlerSaw.RequestBody = httpRequest.sent.data

C12_Witness ==
  /\ BeforeTiming /\ SettleSucceeded
  /\ pc = "handler"
  /\ handlerSaw.SettleResponse.Transaction = "0xdef"
  /\ handlerSaw.RequestBody = <<"o1", "o2">>

\* what the handler produced, read off its own calls: the status is the one
\* of its first call (200 when that call is a write or there is none), the
\* bytes are its writes in order
LoggedStatus(log) ==
  IF log # <<>> /\ Head(log).op = "status" THEN Head(log).code ELSE StatusOK

RECURSIVE LoggedBytes(_)
LoggedBytes(log) ==
  IF log = <<>> THEN <<>>
  ELSE (IF Head(log).op = "write" THEN Head(log).data ELSE <<>>)
       \o LoggedBytes(Tail(log))

\* C13: in after-timing, after a successful settlement the client receives
\* exactly the handler's status code and the concatenation of the handler's
\* bytes in the order written, together with the settlement headers.
C13_CapturedResponseReplayed ==
  (pc = "done" /\ ~BeforeTiming /\ SettleSucceeded) =>
    /\ c.conn.written
    /\ c.conn.status = LoggedStatus(handlerLog)
    /\ c.conn.body = LoggedBytes(handlerLog)
    /\ SettleHeaders \subseteq c.conn.sentHeaders

C13_Witness ==
  /\ pc = "done" /\ ~BeforeTiming /\ SettleSucceeded
  /\ c.conn.status = 201
  /\ Len(c.conn.body) = 1
  /\ config.SettlementHandler

\* C14: once the orchestrator has read the request body without a read
\* error, its captured bytes are the original body, and the stream it put
\* back on the request yields the original body from the start, so the
\* handler that reads it observes the original content; when the request has
\* no body the captured bytes are empty.
C14_BodyRoundTrip ==
  pc # "config" =>
    /\ httpRequest.sent.nil =>
          (requestBody = <<>> /\ httpRequest.Body.nil)
    /\ (~httpRequest.sent.nil /\ ~httpRequest.sent.fails) =>
          /\ requestBody = httpRequest.sent.data
          /\ IF handlerRead.done
             THEN handlerRead.bytes = httpRequest.sent.data
             ELSE /\ httpRequest.Body.pos = 0
                  /\ ~ReadAll(httpRequest.Body).err
                  /\ ReadAll(httpRequest.Body).bytes = httpRequest.sent.data

C14_Witness ==
  /\ ~httpRequest.sent.nil /\ ~httpRequest.sent.fails
  /\ handlerRead.done
  /\ handlerRead.bytes = <<"o1", "o2">>
  /\ requestBody = <<"o1", "o2">>

\* C17: GetPaymentData returns nil whenever no PaymentData has been stored,
\* which is the case at every point before a settlement has succeeded, and
\* returns the stored PaymentData once the orchestrator has stored it; the
\* handler's own call observes the same.
C17_GetPaymentData ==
  /\ ~SettleSucceeded => GetPaymentData(c) = NilPaymentData
  /\ PaymentDataKey \notin DOMAIN c.Keys => GetPaymentData(c) = NilPaymentData
  /\ PaymentDataKey \in DOMAIN c.Keys =>
        GetPaymentData(c) = NewPaymentData(result, settleResult, requestBody)
  /\ Called("handler") =>
        handlerSaw = IF BeforeTiming /\ SettleSucceeded
                     THEN NewPaymentData(result, settleResult, requestBody)
                     ELSE NilPaymentData

C17_Witness ==
  /\ pc = "done"
  /\ Called("handler")
  /\ GetPaymentData(c) # NilPaymentData
  /\ handlerSaw = GetPaymentData(c)

\* C18: when the deadline expires or the host request is cancelled while the
\* engine's verify or settle call is pending, the request fails closed: the
\* verification or settlement counts as failed, in before-timing the handler
\* never runs, in after-timing the captured handler output is never sent,
\* settlement is called at most once and no PaymentData is stored.
C18_FailClosedOnTimeout ==
  /\ (timeoutCtx.done /\ timeoutCtx.at = "process" /\ pc # "process") =>
        /\ result.Type = ResultPaymentError
        /\ ~Called("handler") /\ ~Called("settle")
        /\ PaymentDataKey \notin DOMAIN c.Keys
        /\ ~HandlerBytesSent
  /\ (timeoutCtx.done /\ timeoutCtx.at = "settle" /\ pc # "settle") =>
        /\ SettleFailed
        /\ Count("settle") = 1
        /\ PaymentDataKey \notin DOMAIN c.Keys
        /\ BeforeTiming => ~Called("handler")
        /\ ~HandlerBytesSent
        /\ GetPaymentData(c) = NilPaymentData

C18_Witness ==
  /\ pc = "done"
  /\ timeoutCtx.done /\ timeoutCtx.at = "settle"
  /\ ~BeforeTiming
  /\ writer.body # <<>>
  /\ SettleFailed

\* after-timing request whose handler failed or aborted: the handler ran and
\* neither the hook vetoed nor the settlement was attempted
HandlerFailedAfter ==
  Verified /\ ~BeforeTiming /\ Called("handler") /\ ~Vetoed /\ ~Called("settle")

\* C20 as stated (safety part), with the default error responses: a request
\* that ended on a failure path has a response written whose status is the
\* failure's: the engine's status for a payment error, 402 for a hook veto
\* and for a settlement failure or timeout, and the handler's own status for
\* a handler failure or handler abort in after-timing.
C20_FailureResponseWritten ==
  (pc = "done" /\ ~config.ErrorHandler) =>
    /\ c.conn.written
    /\ result.Type = ResultPaymentError =>
          c.conn.status = result.Response.Status
    /\ Vetoed => c.conn.status = StatusPaymentRequired
    /\ SettleFailed => c.conn.status = StatusPaymentRequired
    /\ HandlerFailedAfter => c.conn.status = writer.statusCode

\* the values stored under key in the context the engine got, oldest first
StoredUnder(key) ==
  SelectSeq(priceCtx.chain, LAMBDA e : e.key = key)

\* C15: when nothing was stored under the key, or what was stored last is
\* not a string, ContextPrice returns an error that names the key and no
\* price at all (not a zero, empty or default one).
C15_PriceNotFoundIsExplicit ==
  (/\ priceResult.called
   /\ \/ StoredUnder(priceResult.key) = <<>>
      \/ StoredUnder(priceResult.key)[Len(StoredUnder(priceResult.key))]
            .val.type # "string")
    => /\ priceResult.err =
            <<"price not found in context with key: %s", priceResult.key>>
       /\ priceResult.price = NilPrice

C15_Witness ==
  /\ priceResult.called
  /\ priceResult.key = "x402:price"
  /\ StoredUnder("x402:price") = <<>>
  /\ StoredUnder("x402:order") # <<>>
  /\ priceResult.err # <<>>

\* C16: when an upstream stage stored a string under the key with
\* SetContextValueGin, the price function evaluated by the middleware on
\* its derived context returns exactly that string, without error; when the
\* key was set several times, the value set last.
C16_PriceRoundTrip ==
  (/\ priceResult.called
   /\ StoredUnder(priceResult.key) # <<>>
   /\ StoredUnder(priceResult.key)[Len(StoredUnder(priceResult.key))]
         .val.type = "string")
    => /\ priceResult.err = <<>>
       /\ ~priceResult.price.isNil
       /\ priceResult.price.v =
            StoredUnder(priceResult.key)[Len(StoredUnder(priceResult.key))]
              .val.v

C16_Witness ==
  /\ priceResult.called
  /\ Len(StoredUnder(priceResult.key)) = 2
  /\ StoredUnder(priceResult.key)[1].val.v = "1.00"
  /\ priceResult.price.v = "2.50"

\* number of ProcessSettlement calls made for payload p
SettleCallsFor(p) ==
  Cardinality({i \in DOMAIN settleCalls : settleCalls[i] = p})

\* C19 as stated: over any set of requests carrying the same payload, the
\* orchestrator makes at most one settlement call for that payload.
C19_OneSettlementPerPayload ==
  \A p \in Payloads : SettleCallsFor(p) <= 1

\* one of the orchestrator's own JSON error bodies is in the response
DefaultErrorBodyWritten ==
  \E i \in DOMAIN c.conn.body :
    /\ c.conn.body[i].kind = "json"
    /\ c.conn.body[i].obj[1] \in
         {"Pre-settlement validation failed", "Settlement failed"}

\* C21 as stated: with a custom error handler configured, a verification
\* failure, a hook veto and a settlement failure each hand control to the
\* handler, and the orchestrator writes no default error body.
C21_Original ==
  config.ErrorHandler =>
    ((Vetoed \/ SettleFailed \/ (result.Type = ResultPaymentError /\ Returned))
       => (Called("errorHandler") /\ ~DefaultErrorBodyWritten))

\* C21 amended: with a custom error handler configured, a hook veto and a
\* settlement failure each call the handler exactly once and write no
\* default error body; a payment-error result of the engine is never handed
\* to the handler: the engine's response instructions are written as they are.
C21_CustomErrorHandler ==
  config.ErrorHandler =>
    /\ (Vetoed \/ SettleFailed) =>
          (Count("errorHandler") = 1 /\ ~DefaultErrorBodyWritten)
    /\ (result.Type = ResultPaymentError /\ Returned) =>
          /\ ~Called("errorHandler")
          /\ c.conn.status = result.Response.Status
          /\ c.conn.body =
               <<[kind |-> IF result.Response.IsHTML THEN "html" ELSE "json",
                  obj |-> result.Response.Body]>>

C21_Witness ==
  /\ config.ErrorHandler
  /\ Vetoed
  /\ pc = "done"
  /\ \E i \in DOMAIN c.conn.body : c.conn.body[i].kind = "custom"

\* the branch of the payment-verified case the request went into, read off
\* the calls made: the after branch starts the handler right after the
\* verification, the before branch goes to the hook or the settlement
TookAfterBranch ==
  Verified /\ pc # "switch" /\ Len(events) >= 3 /\ events[3] = "handler"

TookBeforeBranch ==
  Verified /\ pc # "switch"
    /\ (Len(events) = 2 \/ events[3] \in {"hook", "settle"})

\* C22: the configured timing is the argument of the last
\* WithSettlementTiming option applied, "after" when there was none; a
\* verified request takes the before-timing branch exactly when that value
\* is the string "before", and the after-timing branch for every other value
\* ("after", the empty string, "Before").
C22_TimingSelection ==
  /\ config.SettlementTiming =
       IF timingOption = NoTimingOption THEN "after" ELSE timingOption
  /\ (Verified /\ pc # "switch") =>
       /\ TookBeforeBranch <=> timingOption = "before"
       /\ TookAfterBranch <=> timingOption # "before"
       /\ TookAfterBranch # TookBeforeBranch

C22_Witness ==
  /\ timingOption = "Before"
  /\ TookAfterBranch
  /\ Called("settle")

\* C23: in every timing other than "before" the orchestrator never stores
\* PaymentData: GetPaymentData returns nil while the handler runs (so the
\* handler's call saw nil) and still returns nil after the settlement has
\* succeeded.
C23_NoPaymentDataInAfterTiming ==
  (pc # "config" /\ ~BeforeTiming) =>
    /\ PaymentDataKey \notin DOMAIN c.Keys
    /\ GetPaymentData(c) = NilPaymentData
    /\ handlerSaw = NilPaymentData

C23_Witness ==
  /\ ~BeforeTiming
  /\ SettleSucceeded
  /\ pc = "done"
  /\ handlerRead.done
  /\ GetPaymentData(c) = NilPaymentData

\* C24: for one request ProcessHTTPRequest is called at most once, and only
\* after RequiresPayment was asked and answered true.
C24_VerifyAtMostOnce ==
  /\ Count("verify") <= 1
  /\ Count("requiresPayment") <= 1
  /\ Called("verify") =>
       /\ httpRequest.requiresPayment
       /\ \A i, j \in DOMAIN events :
            (events[i] = "requiresPayment" /\ events[j] = "verify") => i < j
       /\ \E i \in DOMAIN events : events[i] = "requiresPayment"

C24_Witness ==
  /\ pc = "done"
  /\ Count("verify") = 1
  /\ SettleFailed
  /\ timeoutCtx.done

\* C25: with no custom error handler, a hook veto in either timing produces
\* status 402 with error "Pre-settlement validation failed" and details
\* equal to the hook's error message; in before-timing the request is then
\* aborted, so the handler does not run.
C25_HookVetoResponse ==
  (Vetoed /\ ~config.ErrorHandler) =>
    /\ SentJSON(StatusPaymentRequired,
                <<"Pre-settlement validation failed", hookErr>>)
    /\ BeforeTiming => (c.aborted /\ ~Called("handler"))

C25_Witness ==
  /\ Vetoed /\ ~config.ErrorHandler
  /\ BeforeTiming
  /\ hookErr = "price changed"
  /\ pc = "done"

\* the handler is running, or has just returned, with the capture installed
Capturing == c.Writer = "capture" /\ pc \in {"handler", "afterNext"}

\* C26: the captured status is the one of the handler's first status-set
\* call, or 200 when its first call is a write (and 200 while it has made no
\* call); later status-set calls do not change it; the capture holds every
\* byte written, and while capturing neither a status nor a body byte has
\* been transmitted on the real connection.
C26_ResponseCapture ==
  TookAfterBranch =>
    /\ writer.statusCode = LoggedStatus(handlerLog)
    /\ writer.written <=> handlerLog # <<>>
    /\ writer.body = LoggedBytes(handlerLog)
    /\ Capturing =>
         /\ ~c.conn.written
         /\ c.conn.body = <<>>
         /\ c.conn.status = StatusOK

C26_Witness ==
  /\ Capturing
  /\ Len(handlerLog) = 2
  /\ handlerLog[1].op = "status" /\ handlerLog[1].code = 201
  /\ handlerLog[2].op = "status" /\ handlerLog[2].code = 400
  /\ writer.statusCode = 201

RECURSIVE BytesWritten(_)
BytesWritten(S) ==
  IF S = {} THEN 0
  ELSE LET t == CHOOSE x \in S : TRUE
       IN callers[t].n + BytesWritten(S \ {t})

\* C27: for every interleaving of concurrent Write and WriteHeader calls on
\* one capture, the status is fixed exactly once (by the first call to get
\* in), and the buffer holds the bytes of every Write call, each call's bytes
\* contiguous and none lost.
C27_ConcurrentCapture ==
  /\ fixes <= 1
  /\ shared.written <=> fixes = 1
  /\ (\E t \in Callers : callers[t].pc \in {"write", "unlock", "done"})
       => fixes = 1
  /\ Len(shared.body) = BytesWritten(Callers)
  /\ \A t \in Callers :
       callers[t].n > 0 =>
         \E k \in DOMAIN shared.body :
           /\ k + callers[t].n - 1 <= Len(shared.body)
           /\ SubSeq(shared.body, k, k + callers[t].n - 1)
                = SubSeq(DataOf(t), 1, callers[t].n)

C27_Witness ==
  /\ \A t \in Callers : callers[t].pc = "done"
  /\ callers[1].op = "Write" /\ callers[2].op = "Write"
  /\ shared.body = DataOf(2) \o DataOf(1)
  /\ fixes = 1

\* the settlement headers set on, or already sent with, the response
SettlementHeadersAttached ==
  (c.conn.headers \cup c.conn.sentHeaders) \cap SettleHeaders

\* C28: the settlement headers the engine supplies are on the response
\* exactly when the settlement succeeded: all of them after a success, none
\* of them after a hook veto, a settlement failure, a payment error or a
\* handler failure.
C28_SettlementHeadersOnlyOnSuccess ==
  IF SettleSucceeded
  THEN SettlementHeadersAttached = SettleHeaders
  ELSE SettlementHeadersAttached = {}

C28_Witness ==
  /\ SettleFailed
  /\ settleResult.Headers = SettleHeaders
  /\ pc = "done"
  /\ c.conn.written
  /\ SettlementHeadersAttached = {}

\* the hook vetoed or the settlement failed after the handler ran
DiscardedAfter == TookAfterBranch /\ (Vetoed \/ SettleFailed)

\* C29 as stated: in after-timing, when the hook vetoes or the settlement
\* fails after the handler ran, nothing of the handler's output reaches the
\* client: not its status, not the headers it set, not the bytes it wrote.
C29_DiscardIsTotal ==
  (DiscardedAfter /\ pc = "done") =>
    /\ ~HandlerBytesSent
    /\ (~config.ErrorHandler => c.conn.status = StatusPaymentRequired)
    /\ HandlerHeader \notin c.conn.sentHeaders

\* C30: in after-timing, once the handler has aborted the request the
\* orchestrator makes no further call for it: not the before-settle hook, not
\* the settlement, not the settlement callback.
C30_AbortStopsAfterTiming ==
  (TookAfterBranch /\ c.aborted) =>
    /\ ~Called("hook")
    /\ ~Called("settle")
    /\ ~Called("settlementHandler")
    /\ hookErr = NotCalled
    /\ settleResult = NoSettle

C30_Witness ==
  /\ TookAfterBranch /\ c.aborted
  /\ pc = "done"
  /\ config.BeforeSettleHook /\ config.SettlementHandler
  /\ writer.statusCode = 201

\* C31: the settlement callback is called at most once per request, only when
\* configured and only after the settlement call returned success, never
\* after a veto or a failure; in before-timing it finds the PaymentData
\* stored and runs before the handler starts, in after-timing it runs while
\* nothing of the captured response has been flushed.
C31_SettlementCallback ==
  /\ Count("settlementHandler") <= 1
  /\ Called("settlementHandler") <=> (config.SettlementHandler /\ SettleSucceeded)
  /\ callbackSaw.called <=> Called("settlementHandler")
  /\ (Vetoed \/ SettleFailed) => ~Called("settlementHandler")
  /\ \A i, j \in DOMAIN events :
       (events[i] = "settle" /\ events[j] = "settlementHandler") => i < j
  /\ callbackSaw.called =>
       /\ callbackSaw.transaction = settleResult.Transaction
       /\ SettleHeaders \subseteq callbackSaw.headers
       /\ IF BeforeTiming
          THEN /\ callbackSaw.paymentData =
                    NewPaymentData(result, settleResult, requestBody)
               /\ \A i, j \in DOMAIN events :
                    (events[i] = "settlementHandler" /\ events[j] = "handler")
                      => i < j
          ELSE /\ ~callbackSaw.written
               /\ \A i, j \in DOMAIN events :
                    (events[i] = "handler" /\ events[j] = "settlementHandler")
                      => i < j

C31_Witness ==
  /\ callbackSaw.called
  /\ ~BeforeTiming
  /\ pc = "done"
  /\ c.conn.written /\ ~callbackSaw.written
  /\ HandlerBytesSent

\* what request r's own engine results, hook result and handler determine
OwnOutcome(r) ==
  IF ~served[r].verified THEN "error"
  ELSE IF served[r].vetoed THEN "vetoed"
  ELSE IF ~served[r].ok THEN "settlement failed"
  ELSE "handled"

\* C32: for every interleaving of concurrent requests, the outcome of each
\* request is the one its own engine results, hook result and handler
\* determine; the price the engine reads for a request is the one stored for
\* that request, and the PaymentData its handler gets is that of its own
\* payload and settlement, never another request's.
C32_RequestsDoNotInterfere ==
  \A r \in Requests :
    /\ served[r].pc \notin {"idle", "process"} =>
         served[r].priceSeen = served[r].price
    /\ served[r].pc = "done" =>
         /\ served[r].outcome = OwnOutcome(r)
         /\ served[r].saw =
              IF served[r].ok
              THEN [payload |-> served[r].payload, tx |-> served[r].tx]
              ELSE NoData
    /\ served[r].pc = "handler" =>
         contexts[r].paymentData =
           [payload |-> served[r].payload, tx |-> served[r].tx]
    /\ ~served[r].ok => contexts[r].paymentData = NoData

C32_Witness ==
  /\ \A r \in Requests : served[r].pc = "done" /\ served[r].outcome = "handled"
  /\ served[1].price # served[2].price
  /\ served[1].saw.tx = 2 /\ served[2].saw.tx = 1
  /\ served[1].payload # served[2].payload

\* the configuration the options produced, whatever Initialize returned
ConfiguredAs(cfg) ==
  /\ cfg.SettlementTiming = ctor.config.SettlementTiming
  /\ cfg.BeforeSettleHook = ctor.config.BeforeSettleHook

\* C33: when Initialize fails, the constructor prints one warning and still
\* returns a handler function; that function captured the same configuration
\* and dispatches every request to the same branch as one returned after a
\* successful Initialize.
C33_InitFailureIsNotFatal ==
  /\ ctor.pc \in {"options", "return", "serving"}
  /\ Len(warnings) = (IF ctor.initErr = "err" THEN 1 ELSE 0)
  /\ ctor.pc = "serving" => handlerFunc.made
  /\ handlerFunc.made => ConfiguredAs(handlerFunc.config)
  /\ dispatched.done =>
       dispatched.branch =
         Dispatch(ctor.config, dispatched.required, dispatched.resultType)

C33_Witness ==
  /\ ctor.initErr = "err"
  /\ handlerFunc.made
  /\ dispatched.done
  /\ dispatched.branch = "handlePaymentVerifiedSettleBefore:hook"

\* C34: the hook made by CreateBeforeSettleHook calls the validation function
\* exactly once per settle attempt; when the validation fails it returns an
\* abort result whose reason is the validation error's message, and no error;
\* when the validation succeeds it returns no result and no error.
C34_CreateBeforeSettleHook ==
  /\ Len(validateLog) = Len(hookReturns)
  /\ \A i \in DOMAIN hookReturns :
       /\ hookReturns[i].err = Nil
       /\ IF validateLog[i] = Nil
          THEN hookReturns[i].result.isNil
          ELSE /\ ~hookReturns[i].result.isNil
               /\ hookReturns[i].result.Abort
               /\ hookReturns[i].result.Reason = validateLog[i]

C34_Witness ==
  /\ Len(hookReturns) = 3
  /\ validateLog = <<"price changed", Nil, "out of stock">>
  /\ hookReturns[3].result.Reason = "out of stock"

\* the request bodies the upstream validation is documented to reject: an
\* unreadable or invalid body, an unknown product, a non-positive quantity,
\* an empty cart
RejectedUpstream(b) ==
  \/ b.readErr
  \/ ~b.json
  \/ \E i \in 1..Len(b.Items) :
       \/ b.Items[i].ProductID \notin {"cowboy-duck", "artiste-duck", "batman-duck"}
       \/ b.Items[i].Quantity <= 0
  \/ b.Items = <<>>

\* C35: in the chain validation -> payment middleware -> handler, a request
\* the validation rejects is answered 400 and aborted, and the payment
\* middleware never runs for it: nothing is verified, nothing is settled, no
\* order is created and no price is stored
C35_RejectedUpstream ==
  (chain.pc \notin {"idle", "validate"} /\ RejectedUpstream(chain.body)) =>
    /\ chain.status = 400
    /\ chain.aborted
    /\ chain.pc \in {"payment", "done"}
    /\ engineCalls = [verify |-> 0, settle |-> 0]
    /\ orders = <<>>
    /\ chain.price = NoPrice
    /\ ~chain.paymentData

\* a request rejected for a non-positive quantity after a valid first item
C35_Witness ==
  /\ chain.pc = "done"
  /\ Len(chain.body.Items) = 2
  /\ chain.body.Items[1].Quantity = 2
  /\ chain.body.Items[2].Quantity = 0
  /\ chain.error = "Quantity must be greater than 0"
  /\ chain.status = 400

\* C36 as stated: before-timing, route requiring payment: whenever the
\* business handler has started, either the engine returned
\* no-payment-required or the settlement has already succeeded, whatever
\* result kind the engine returned.
C36_HandlerOnlyAfterSettlement ==
  (BeforeTiming /\ httpRequest.requiresPayment /\ Called("handler")) =>
    \/ result.Type = ResultNoPaymentRequired
    \/ SettleSucceeded

\* C37: in after-timing, when the handler aborts the request after writing a
\* status and a body, the orchestrator returns with the capture still
\* installed and unflushed: the capture keeps what the handler wrote, and
\* none of the handler's status or bytes is written to the real connection
\* (what the connection gets in the end is the default 200 with no body).
C37_AbortLeavesCaptureUnflushed ==
  (TookAfterBranch /\ c.aborted) =>
    /\ c.Writer = "capture"
    /\ writer.statusCode = LoggedStatus(handlerLog)
    /\ writer.body = LoggedBytes(handlerLog)
    /\ ~HandlerBytesSent
    /\ c.conn.body = <<>>
    /\ pc # "done" => ~c.conn.written
    /\ c.conn.written => c.conn.status = StatusOK

C37_Witness ==
  /\ TookAfterBranch /\ c.aborted
  /\ Returned
  /\ writer.statusCode = 400
  /\ writer.body # <<>>
  /\ c.Writer = "capture"

\* the status a handler writing to the real connection leaves on it: the one
\* of its last status-set call before its first write, st when there is none
RECURSIVE DirectStatus(_, _)
DirectStatus(log, st) ==
  IF log = <<>> \/ Head(log).op = "write" THEN st
  ELSE DirectStatus(Tail(log), Head(log).code)

\* the deadline expired while the business handler was running
ExpiredInHandler == timeoutCtx.done /\ timeoutCtx.at = "handler"

\* C38: one deadline covers verification and settlement. In after-timing,
\* when it expires while the handler runs, no settlement succeeds for the
\* request: a settlement call that is made gets the expired context and
\* fails, and unless the handler itself failed or aborted or the hook vetoed
\* the request ends with the settlement failure (402 by default) and nothing
\* of the handler's status or bytes sent. In before-timing the expiry during
\* the handler changes nothing: the settlement already succeeded and the
\* client gets the handler's status and bytes.
C38_OneDeadline ==
  /\ (ExpiredInHandler /\ TookAfterBranch) =>
        /\ ~SettleSucceeded
        /\ ~Called("settlementHandler")
        /\ GetPaymentData(c) = NilPaymentData
        /\ Called("settle") =>
              /\ ~HandlerBytesSent
              /\ pc = "done" => c.conn.written
              /\ (pc = "done" /\ ~config.ErrorHandler) =>
                    c.conn.status = StatusPaymentRequired
        /\ (pc = "done" /\ ~c.aborted /\ writer.statusCode < 400 /\ ~Vetoed) =>
              SettleFailed
  /\ (ExpiredInHandler /\ TookBeforeBranch) =>
        /\ SettleSucceeded
        /\ pc = "done" =>
              /\ c.conn.status = DirectStatus(handlerLog, StatusOK)
              /\ c.conn.body = LoggedBytes(handlerLog)

\* after-timing: the handler wrote 201 and a body, the deadline expired
\* meanwhile, the settlement failed and the client got 402
C38_Witness ==
  /\ ExpiredInHandler /\ TookAfterBranch
  /\ pc = "done"
  /\ writer.statusCode = 201 /\ writer.body # <<>>
  /\ SettleFailed
  /\ c.conn.status = StatusPaymentRequired

\* the read of the request body failed in the orchestrator
BodyReadFailed == pc # "config" /\ ~httpRequest.sent.nil /\ httpRequest.sent.fails

\* C39: when reading the request body fails the orchestrator does not reject
\* the request: it goes on to the requirement check (and from there to
\* verification and settlement) with an empty captured body and with the
\* request's stream left where the failed read left it, so the PaymentData
\* stored after a before-timing settlement, and seen by the handler, has an
\* empty RequestBody.
C39_BodyReadFailure ==
  BodyReadFailed =>
    /\ requestBody = <<>>
    /\ Called("requiresPayment")
    /\ (httpRequest.requiresPayment /\ Len(events) = 1) =>
          (pc = "process" /\ ~c.aborted /\ ~c.conn.written)
    /\ ~handlerRead.done =>
          httpRequest.Body = ReadAll(httpRequest.sent).rest
    /\ handlerRead.done =>
          handlerRead.bytes = ReadAll(ReadAll(httpRequest.sent).rest).bytes
    /\ PaymentDataKey \in DOMAIN c.Keys =>
          GetPaymentData(c).RequestBody = <<>>
    /\ (TookBeforeBranch /\ SettleSucceeded /\ Called("handler")) =>
          (handlerSaw # NilPaymentData /\ handlerSaw.RequestBody = <<>>)

\* a two-chunk body whose read fails after the first chunk, settled before
\* the handler
C39_Witness ==
  /\ BodyReadFailed
  /\ httpRequest.sent.data = <<"o1", "o2">>
  /\ TookBeforeBranch /\ SettleSucceeded
  /\ pc = "done"
  /\ handlerSaw.SettleResponse.Transaction = "0xdef"
  /\ handlerSaw.RequestBody = <<>>

\* the discovery issued last
LatestDiscovery == discoveries[Len(discoveries)]

\* the disabled attribute of the pay button, for a connected wallet on the
\* right chain with a validated token and no payment in progress
PayButtonEnabled == ~component.isDiscoveringAccepts /\ component.amount # ""

\* C40 as stated: once the order data changed while a discovery was in
\* flight and every response has arrived (in whichever order), the amount,
\* network, token and recipient held are those answered to the discovery
\* issued last; and the pay button is not enabled while the discovery issued
\* last is still pending.
C40_LatestDiscoveryWins ==
  Len(discoveries) >= 2 =>
    /\ ((\A i \in DOMAIN discoveries : discoveries[i].reply = "402")
          /\ isSupportedChainId(parsedChainId(Offer(LatestDiscovery.orderData).network))) =>
          /\ component.amount = Offer(LatestDiscovery.orderData).amount
          /\ component.network = Offer(LatestDiscovery.orderData).network
          /\ component.tokenAddress = Offer(LatestDiscovery.orderData).asset
          /\ component.recipientAddress = Offer(LatestDiscovery.orderData).payTo
    /\ LatestDiscovery.reply = "pending" => ~PayButtonEnabled

====
